---- MODULE Spec2Model ----
(***************************************************************************)
(* Model of the FileSystem module of repobot (src/src/filesystem/index.js). *)
(* A text is a sequence of one-character strings, so that split, join,     *)
(* trim, includes and the regular expressions of the source are computed   *)
(* character by character.  The disk is a function from base-relative      *)
(* paths to texts; a path outside its domain does not exist.  baseExists   *)
(* tells whether the base directory is on the disk, and calls holds the    *)
(* asynchronous calls that are between two of their awaits.                *)
(***************************************************************************)
EXTENDS Integers, Sequences, FiniteSets, TLC

VARIABLES files, baseExists, ignoreFilter, ignoreRules, last, calls,
          telegram, configs

vars ==
  <<files, baseExists, ignoreFilter, ignoreRules, last, calls, telegram,
    configs>>

----------------------------------------------------------------------------
(* Bounds of the model *)

MaxLines == 3
MaxRules == 3

----------------------------------------------------------------------------
(* JavaScript string primitives used by the source *)

NL == "\n"

\* \s of a JavaScript regular expression, restricted to the characters used
IsSpace(c) == c \in {" ", "\t", "\r", "\n"}

\* . of a JavaScript regular expression: anything but a line terminator
IsDot(c) == c \notin {"\n", "\r"}

AllSpace(t) == \A i \in 1..Len(t) : IsSpace(t[i])

AllDot(t) == \A i \in 1..Len(t) : IsDot(t[i])

\* t.slice(n - 1): the suffix of t starting at position n
From(t, n) == SubSeq(t, n, Len(t))

\* String.prototype.indexOf for one character, 0 when absent
IndexOfChar(t, c) ==
  IF \E i \in 1..Len(t) : t[i] = c
  THEN CHOOSE i \in 1..Len(t) : t[i] = c /\ \A j \in 1..(i - 1) : t[j] # c
  ELSE 0

RECURSIVE SplitOn(_, _)
\* String.prototype.split(sep) for a one-character separator
SplitOn(t, sep) ==
  LET i == IndexOfChar(t, sep)
  IN  IF i = 0 THEN <<t>>
      ELSE <<SubSeq(t, 1, i - 1)>> \o SplitOn(From(t, i + 1), sep)

RECURSIVE JoinWith(_, _)
\* Array.prototype.join(sep)
JoinWith(ls, sep) ==
  IF Len(ls) = 0 THEN <<>>
  ELSE IF Len(ls) = 1 THEN ls[1]
  ELSE ls[1] \o <<sep>> \o JoinWith(Tail(ls), sep)

\* String.prototype.trim
Trim(t) ==
  IF AllSpace(t) THEN <<>>
  ELSE LET a == CHOOSE i \in 1..Len(t) :
                  ~IsSpace(t[i]) /\ \A j \in 1..(i - 1) : IsSpace(t[j])
           b == CHOOSE i \in 1..Len(t) :
                  ~IsSpace(t[i]) /\ \A j \in (i + 1)..Len(t) : IsSpace(t[j])
       IN  SubSeq(t, a, b)

\* String.prototype.includes
Includes(t, s) ==
  \E i \in 0..(Len(t) - Len(s)) : SubSeq(t, i + 1, i + Len(s)) = s

\* String.prototype.startsWith
StartsWith(t, s) == Len(s) <= Len(t) /\ SubSeq(t, 1, Len(s)) = s

----------------------------------------------------------------------------
(* The task-line regular expressions *)

\* number of whitespace characters \s+ takes at the front of t when it is
\* followed by (.+)$ : greedy, backing off until the rest is one or more
\* non-terminators; 0 when \s+(.+)$ does not match t
SpaceRun(t) ==
  LET ok == {m \in 1..(Len(t) - 1) :
               AllSpace(SubSeq(t, 1, m)) /\ AllDot(From(t, m + 1))}
  IN  IF ok = {} THEN 0 ELSE CHOOSE m \in ok : \A n \in ok : n <= m

\* position of "[" in a line that starts with [-*]\s+\[ , 0 otherwise
BracketPos(line) ==
  IF Len(line) >= 3 /\ line[1] \in {"-", "*"}
     /\ \E k \in 3..Len(line) :
          line[k] = "[" /\ \A j \in 2..(k - 1) : IsSpace(line[j])
  THEN CHOOSE k \in 3..Len(line) :
          line[k] = "[" /\ \A j \in 2..(k - 1) : IsSpace(line[j])
  ELSE 0

\* UpdateMatch that also takes an upper-case "X" for a checkbox character
UpdateMatchAnyCase(line) ==
  LET k == BracketPos(line)
  IN  /\ k # 0
      /\ Len(line) >= k + 2
      /\ line[k + 1] \in {" ", "x", "X"}
      /\ line[k + 2] = "]"
      /\ SpaceRun(From(line, k + 3)) # 0

\* line.match(/^([-*]\s+\[)[ x](\]\s+.+)$/) succeeds
UpdateMatch(line) ==
  LET k == BracketPos(line)
  IN  /\ k # 0
      /\ Len(line) >= k + 2
      /\ line[k + 1] \in {" ", "x"}
      /\ line[k + 2] = "]"
      /\ SpaceRun(From(line, k + 3)) # 0

\* RewriteLine with the checkbox toggled instead of set
RewriteLineToggle(line, completed) ==
  LET k == BracketPos(line)
      checkbox == IF line[k + 1] = "x" THEN " " ELSE "x"
  IN  SubSeq(line, 1, k) \o <<checkbox>> \o From(line, k + 2)

\* the rewritten line `${taskMatch[1]}${checkbox}${taskMatch[2]}`
RewriteLine(line, completed) ==
  LET k == BracketPos(line)
      checkbox == IF completed THEN "x" ELSE " "
  IN  SubSeq(line, 1, k) \o <<checkbox>> \o From(line, k + 2)

\* UpdateLine without the test for the task description
UpdateLineAnyTask(line, taskDescription, completed) ==
  IF UpdateMatch(line) THEN RewriteLine(line, completed) ELSE line

\* one iteration of the loop of updateTodoStatus
UpdateLine(line, taskDescription, completed) ==
  IF UpdateMatch(line) /\ Includes(line, taskDescription)
  THEN RewriteLine(line, completed)
  ELSE line

\* UpdatedContent that leaves out the empty lines of the text
UpdatedContentNoEmptyLines(content, taskDescription, completed) ==
  LET lines == SelectSeq(SplitOn(content, NL), LAMBDA l : l # <<>>)
      updatedLines == [i \in 1..Len(lines) |->
                         UpdateLine(lines[i], taskDescription, completed)]
  IN  JoinWith(updatedLines, NL)

\* UpdatedContent that stops rewriting after the first matching line
UpdatedContentFirstOnly(content, taskDescription, completed) ==
  LET lines == SplitOn(content, NL)
      hit(i) == UpdateMatch(lines[i]) /\ Includes(lines[i], taskDescription)
      updatedLines == [i \in 1..Len(lines) |->
                         IF \E j \in 1..(i - 1) : hit(j) THEN lines[i]
                         ELSE UpdateLine(lines[i], taskDescription,
                                         completed)]
  IN  JoinWith(updatedLines, NL)

\* the text updateTodoStatus writes back for the text it read
UpdatedContent(content, taskDescription, completed) ==
  LET lines == SplitOn(content, NL)
      updatedLines == [i \in 1..Len(lines) |->
                         UpdateLine(lines[i], taskDescription, completed)]
  IN  JoinWith(updatedLines, NL)

----------------------------------------------------------------------------
(* Paths: path.resolve and path.relative on POSIX paths *)

\* process.cwd(), the base path of the FileSystem instance
BasePath == <<"/", "r">>

RECURSIVE NormSegs(_, _)
\* path normalisation: drops empty and "." segments, ".." removes a segment
NormSegs(segs, acc) ==
  IF segs = <<>> THEN acc
  ELSE LET s == Head(segs)
       IN  IF s = <<>> \/ s = <<".">> THEN NormSegs(Tail(segs), acc)
           ELSE IF s = <<".", ".">>
                THEN NormSegs(Tail(segs),
                              IF acc = <<>> THEN acc
                              ELSE SubSeq(acc, 1, Len(acc) - 1))
                ELSE NormSegs(Tail(segs), Append(acc, s))

\* the segments of the absolute path resolve(base, p)
ResolveSegs(base, p) ==
  IF Len(p) > 0 /\ p[1] = "/"
  THEN NormSegs(SplitOn(p, "/"), <<>>)
  ELSE NormSegs(SplitOn(base, "/") \o SplitOn(p, "/"), <<>>)

\* path.resolve(base, p)
Resolve(base, p) == <<"/">> \o JoinWith(ResolveSegs(base, p), "/")

\* path.relative(base, p) for absolute base and p
Relative(base, p) ==
  LET bs == ResolveSegs(base, base)
      ps == ResolveSegs(base, p)
      same == {c \in 0..Len(bs) :
                 c <= Len(ps) /\ SubSeq(bs, 1, c) = SubSeq(ps, 1, c)}
      c == CHOOSE n \in same : \A m \in same : m <= n
      ups == [i \in 1..(Len(bs) - c) |-> <<".", ".">>]
  IN  JoinWith(ups \o SubSeq(ps, c + 1, Len(ps)), "/")

\* GetRelativePath that hands on a path under the base as it was given
GetRelativePathAsGiven(filePath) ==
  IF StartsWith(filePath, BasePath)
  THEN filePath
  ELSE Relative(BasePath, Resolve(BasePath, filePath))

\* FileSystem._getRelativePath
GetRelativePath(filePath) ==
  LET absolutePath == IF StartsWith(filePath, BasePath)
                      THEN filePath
                      ELSE Resolve(BasePath, filePath)
  IN  Relative(BasePath, absolutePath)

----------------------------------------------------------------------------
(* The ignore package: ignore().add(text) and .ignores(relativePath) *)

RECURSIVE Glob(_, _)
\* a pattern segment against a name: "*" is any run of characters of the
\* segment, every other character stands for itself
Glob(p, n) ==
  IF p = <<>> THEN n = <<>>
  ELSE IF p[1] = "*"
       THEN \E k \in 0..Len(n) : Glob(Tail(p), From(n, k + 1))
       ELSE n # <<>> /\ n[1] = p[1] /\ Glob(Tail(p), Tail(n))

\* text without its trailing whitespace
TrimEnd(t) ==
  LET keep == {i \in 0..Len(t) : AllSpace(From(t, i + 1))}
  IN  SubSeq(t, 1, CHOOSE i \in keep : \A j \in keep : i <= j)

\* the pattern lines ignore().add(text) keeps: split on \r?\n, drop empty
\* and blank lines and lines that start with "#"
AddPatterns(text) ==
  LET raw == SplitOn(text, NL)
      line(i) == IF Len(raw[i]) > 0 /\ raw[i][Len(raw[i])] = "\r"
                 THEN SubSeq(raw[i], 1, Len(raw[i]) - 1)
                 ELSE raw[i]
      kept == {i \in 1..Len(raw) :
                 line(i) # <<>> /\ ~AllSpace(line(i)) /\ line(i)[1] # "#"}
      nth(k) == CHOOSE i \in kept : Cardinality({j \in kept : j <= i}) = k
  IN  [k \in 1..Cardinality(kept) |-> line(nth(k))]

\* a pattern line is a negation when it starts with "!"
RuleNegative(pattern) == Len(pattern) > 0 /\ pattern[1] = "!"

\* a pattern line without its "!" and without trailing whitespace
RuleBody(pattern) ==
  TrimEnd(IF RuleNegative(pattern) THEN Tail(pattern) ELSE pattern)

\* the regular expression compiled from a pattern line, applied to a path
\* given by its segments; isDir is true when the path is tested in its
\* directory form (with a trailing "/")
RuleMatches(pattern, psegs, isDir) ==
  LET body == RuleBody(pattern)
      dirOnly == Len(body) > 0 /\ body[Len(body)] = "/"
      anchored == \E i \in 1..(Len(body) - 1) : body[i] = "/"
      bsegs == NormSegs(SplitOn(body, "/"), <<>>)
  IN  /\ Len(bsegs) > 0
      /\ dirOnly => isDir
      /\ IF anchored
         THEN /\ Len(bsegs) = Len(psegs)
              /\ \A i \in 1..Len(bsegs) : Glob(bsegs[i], psegs[i])
         ELSE Glob(bsegs[1], psegs[Len(psegs)])

RECURSIVE TestOneFirstMatch(_, _, _, _)
\* TestOne where the first rule that matches decides
TestOneFirstMatch(rules, psegs, isDir, ignored) ==
  IF rules = <<>> THEN ignored
  ELSE IF RuleMatches(Head(rules), psegs, isDir)
       THEN ~RuleNegative(Head(rules))
       ELSE TestOneFirstMatch(Tail(rules), psegs, isDir, ignored)

RECURSIVE TestOne(_, _, _, _)
\* the rules are tried in order and the last rule that matches decides
TestOne(rules, psegs, isDir, ignored) ==
  IF rules = <<>> THEN ignored
  ELSE TestOne(Tail(rules), psegs, isDir,
               IF RuleMatches(Head(rules), psegs, isDir)
               THEN ~RuleNegative(Head(rules))
               ELSE ignored)

RECURSIVE IgnoresPrefix(_, _, _)
\* a path below an ignored directory is ignored; otherwise the path itself
\* is tested.  Only the proper prefixes are in directory form.
IgnoresPrefix(rules, psegs, n) ==
  LET here == TestOne(rules, SubSeq(psegs, 1, n), n < Len(psegs), FALSE)
  IN  IF n = 1 THEN here
      ELSE IF IgnoresPrefix(rules, psegs, n - 1) THEN TRUE ELSE here

\* ignoreFilter.ignores(relativePath), for a path below the base
Ignores(rules, relativePath) ==
  LET psegs == SplitOn(relativePath, "/")
  IN  IgnoresPrefix(rules, psegs, Len(psegs))

\* isFileIgnored with the test for a missing filter inverted
IsFileIgnoredInNoFilter(filter, filePath) ==
  IF filter.null THEN TRUE
  ELSE Ignores(filter.rules, GetRelativePath(filePath))

\* FileSystem.isFileIgnored, on the fields of the instance
IsFileIgnoredIn(filter, filePath) ==
  IF filter.null THEN FALSE
  ELSE Ignores(filter.rules, GetRelativePath(filePath))

IsFileIgnored(filePath) == IsFileIgnoredIn(ignoreFilter, filePath)

----------------------------------------------------------------------------
(* The glob package: glob(patterns, {cwd, absolute, ignore}) *)

GlobStar == <<"*", "*">>

RECURSIVE MiniMatch(_, _, _)
\* a pattern, given by its segments, against the segments of a path: "**"
\* stands for any number of segments; a name that starts with "." is only
\* matched by a pattern segment that starts with "." unless dot is set
MiniMatch(ps, ss, dot) ==
  IF ps = <<>> THEN ss = <<>>
  ELSE IF Head(ps) = GlobStar
       THEN \E k \in 0..Len(ss) :
              /\ \A j \in 1..k : dot \/ ss[j][1] # "."
              /\ MiniMatch(Tail(ps), From(ss, k + 1), dot)
       ELSE /\ ss # <<>>
            /\ dot \/ Head(ss)[1] # "." \/ Head(ps)[1] = "."
            /\ Glob(Head(ps), Head(ss))
            /\ MiniMatch(Tail(ps), Tail(ss), dot)

\* the segments of the files on a disk, relative to the base
FileSegs(disk) == {SplitOn(Relative(BasePath, f), "/") : f \in DOMAIN disk}

\* the files and the directories below the base
Entries(disk) ==
  UNION {{SubSeq(fs, 1, n) : n \in 1..Len(fs)} : fs \in FileSegs(disk)}

\* the ignore option of glob: every entry of ignoreRules is a glob pattern
\* in dot mode, tried on the path and on the path followed by "/"; "!" and
\* "#" are ordinary characters, a pattern that starts with "/" is absolute
GlobIgnored(rules, segs) ==
  \E i \in 1..Len(rules) :
    LET ps == NormSegs(SplitOn(rules[i], "/"), <<>>)
    IN  /\ ps # <<>>
        /\ IF rules[i][1] = "/"
           THEN MiniMatch(ps, ResolveSegs(BasePath, BasePath) \o segs, TRUE)
           ELSE MiniMatch(ps, segs, TRUE)

\* the set of absolute paths glob returns
GlobFiles(disk, patterns, rules) ==
  {Resolve(BasePath, JoinWith(e, "/")) :
     e \in {x \in Entries(disk) :
              /\ \E pat \in patterns :
                   MiniMatch(NormSegs(SplitOn(pat, "/"), <<>>), x, FALSE)
              /\ ~GlobIgnored(rules, x)}}

----------------------------------------------------------------------------
(* parseTodoFile *)

\* number of leading "#" of a line
HashRun(line) ==
  LET hs == {n \in 0..Len(line) : \A j \in 1..n : line[j] = "#"}
  IN  CHOOSE n \in hs : \A m \in hs : m <= n

\* SectionMatch that also takes a blank line for a header, one that ends
\* the section
SectionMatchOrBlank(line) ==
  \/ HashRun(line) > 0 /\ SpaceRun(From(line, HashRun(line) + 1)) # 0
  \/ AllSpace(line)

\* line.match(/^#+\s+(.+)$/) succeeds
SectionMatch(line) ==
  HashRun(line) > 0 /\ SpaceRun(From(line, HashRun(line) + 1)) # 0

\* sectionMatch[1]
SectionText(line) ==
  LET h == HashRun(line)
  IN  From(line, h + 1 + SpaceRun(From(line, h + 1)))

\* TaskMatch that also takes an upper-case "X" for a checkbox character
TaskMatchAnyCase(line) ==
  LET k == BracketPos(line)
  IN  /\ k # 0
      /\ Len(line) >= k + 2
      /\ line[k + 1] \in {" ", "x", "X"}
      /\ line[k + 2] = "]"
      /\ SpaceRun(From(line, k + 3)) # 0

\* line.match(/^[-*]\s+\[([ x])\]\s+(.+)$/) succeeds
TaskMatch(line) ==
  LET k == BracketPos(line)
  IN  /\ k # 0
      /\ Len(line) >= k + 2
      /\ line[k + 1] \in {" ", "x"}
      /\ line[k + 2] = "]"
      /\ SpaceRun(From(line, k + 3)) # 0

\* taskMatch[1]
TaskMark(line) == line[BracketPos(line) + 1]

\* taskMatch[2]
TaskText(line) ==
  LET k == BracketPos(line)
  IN  From(line, k + 3 + SpaceRun(From(line, k + 3)))

Uncategorized ==
  <<"U", "n", "c", "a", "t", "e", "g", "o", "r", "i", "z", "e", "d">>

RECURSIVE ParseTodoLinesSticky(_, _, _)
\* ParseTodoLines where a header does not replace a section already set
ParseTodoLinesSticky(lines, currentSection, tasks) ==
  IF lines = <<>> THEN tasks
  ELSE LET line == Head(lines)
       IN  IF SectionMatch(line)
           THEN ParseTodoLinesSticky(Tail(lines),
                  IF currentSection # <<>> THEN currentSection
                  ELSE Trim(SectionText(line)), tasks)
           ELSE IF TaskMatch(line)
                THEN ParseTodoLinesSticky(Tail(lines), currentSection,
                       Append(tasks,
                         [description |-> Trim(TaskText(line)),
                          completed |-> (TaskMark(line) = "x"),
                          section |-> IF currentSection # <<>>
                                      THEN currentSection
                                      ELSE Uncategorized]))
                ELSE ParseTodoLinesSticky(Tail(lines), currentSection, tasks)

RECURSIVE ParseTodoLines(_, _, _)
\* the loop of parseTodoFile over the remaining lines
ParseTodoLines(lines, currentSection, tasks) ==
  IF lines = <<>> THEN tasks
  ELSE LET line == Head(lines)
       IN  IF SectionMatch(line)
           THEN ParseTodoLines(Tail(lines), Trim(SectionText(line)), tasks)
           ELSE IF TaskMatch(line)
                THEN ParseTodoLines(Tail(lines), currentSection,
                       Append(tasks,
                         [description |-> Trim(TaskText(line)),
                          completed |-> (TaskMark(line) = "x"),
                          section |-> IF currentSection # <<>>
                                      THEN currentSection
                                      ELSE Uncategorized]))
                ELSE ParseTodoLines(Tail(lines), currentSection, tasks)

\* Distinct that keeps every element
DistinctKeepAll(xs, acc) == acc \o xs

RECURSIVE Distinct(_, _)
\* [...new Set(xs)]: the distinct elements in order of first appearance
Distinct(xs, acc) ==
  IF xs = <<>> THEN acc
  ELSE Distinct(Tail(xs),
                IF \E i \in 1..Len(acc) : acc[i] = Head(xs)
                THEN acc ELSE Append(acc, Head(xs)))

\* ParseTodoFile that takes the text to end in a line break and leaves
\* out what follows the last one
ParseTodoFileDropLast(content) ==
  LET lines == SplitOn(content, NL)
      tasks == ParseTodoLines(SubSeq(lines, 1, Len(lines) - 1), <<>>, <<>>)
  IN  [tasks |-> tasks,
       sections |-> Distinct([i \in 1..Len(tasks) |-> tasks[i].section],
                             <<>>)]

ParseTodoFile(content) ==
  LET tasks == ParseTodoLines(SplitOn(content, NL), <<>>, <<>>)
  IN  [tasks |-> tasks,
       sections |-> Distinct([i \in 1..Len(tasks) |-> tasks[i].section],
                             <<>>)]

----------------------------------------------------------------------------
(* parseMarkdownFile *)

\* headerMatch[1].length
HeaderLevel(line) == HashRun(line)

\* headerMatch[2].trim()
HeaderTitle(line) == Trim(SectionText(line))

\* IsContentLine that takes a line of whitespace for content
IsContentLineNonEmpty(line) == line # <<>>

\* line.trim() is truthy
IsContentLine(line) == Trim(line) # <<>>

\* the section open before the first header
NoSection == [title |-> <<>>, level |-> 0, content |-> <<>>]

\* currentSection.title && currentSection.content.length > 0
HasContent(section) == section.title # <<>> /\ Len(section.content) > 0

RECURSIVE ParseMarkdownLines(_, _, _)
\* the loop of parseMarkdownFile over the remaining lines, and the push of
\* the last section after it
ParseMarkdownLines(lines, currentSection, sections) ==
  IF lines = <<>>
  THEN IF HasContent(currentSection)
       THEN Append(sections, currentSection) ELSE sections
  ELSE LET line == Head(lines)
       IN  IF SectionMatch(line)
           THEN ParseMarkdownLines(Tail(lines),
                  [title |-> HeaderTitle(line),
                   level |-> HeaderLevel(line),
                   content |-> <<>>],
                  IF HasContent(currentSection)
                  THEN Append(sections, currentSection) ELSE sections)
           ELSE ParseMarkdownLines(Tail(lines),
                  IF IsContentLine(line)
                  THEN [currentSection EXCEPT
                          !.content = Append(currentSection.content, line)]
                  ELSE currentSection,
                  sections)

\* parseMarkdownFile whose title is the title of the first header
ParseMarkdownFileFirstHeader(content) ==
  LET lines == SplitOn(content, NL)
      sections == ParseMarkdownLines(lines, NoSection, <<>>)
      hs == {i \in 1..Len(lines) : SectionMatch(lines[i])}
  IN  [sections |-> sections,
       title |-> IF hs # {}
                 THEN HeaderTitle(lines[CHOOSE i \in hs : \A j \in hs : i <= j])
                 ELSE <<>>,
       content |-> content]

ParseMarkdownFile(content) ==
  LET sections == ParseMarkdownLines(SplitOn(content, NL), NoSection, <<>>)
  IN  [sections |-> sections,
       title |-> IF Len(sections) > 0 THEN sections[1].title ELSE <<>>,
       content |-> content]

----------------------------------------------------------------------------
(* The disk and the calls *)

\* the absolute path of a file below the base
Abs(rel) == BasePath \o <<"/">> \o rel

GitignoreName == <<".", "g", "i", "t", "i", "g", "n", "o", "r", "e">>
NpmignoreName == <<".", "n", "p", "m", "i", "g", "n", "o", "r", "e">>
TodoName == <<"T", "O", "D", "O", ".", "m", "d">>
KeepLog == <<"k", "e", "e", "p", ".", "l", "o", "g">>
OtherLog == <<"o", "t", "h", "e", "r", ".", "l", "o", "g">>
BuildDir == <<"b", "u", "i", "l", "d">>
BuildOut == <<"b", "u", "i", "l", "d", "/", "o", "u", "t", ".", "t", "x", "t">>
BuildKeep == <<"b", "u", "i", "l", "d", "/", "k", "e", "e", "p", ".", "l", "o", "g">>
RebuildOut == <<"r", "e", "b", "u", "i", "l", "d", "/", "o", "u", "t", ".", "t", "x", "t">>
MissingName == <<"m", "i", "s", "s", "i", "n", "g", ".", "m", "d">>

DockerignoreName == <<".", "d", "o", "c", "k", "e", "r", "i", "g", "n", "o", "r", "e">>

\* config.get('repository.ignoreFiles')
ConfigIgnoreFiles == <<NpmignoreName, DockerignoreName>>

IsDirectory(disk, fullPath) ==
  \E f \in DOMAIN disk : StartsWith(f, fullPath \o <<"/">>)

NoCall ==
  [op |-> "none", path |-> <<>>, desc |-> <<>>, completed |-> FALSE,
   patterns |-> {}, text |-> <<>>, status |-> "none", msg |-> "",
   value |-> <<>>, instance |-> 0]

IgnoredMsg == "File is ignored by gitignore rules"

\* the identities of the calls that may be in flight together
CallIds == {1, 2}

\* a call that has not been made
Idle ==
  [kind |-> "none", pc |-> "idle", path |-> <<>>, desc |-> <<>>,
   completed |-> FALSE, text |-> <<>>, queue |-> {}, result |-> <<>>,
   after |-> {}, rank |-> 0, status |-> "none", msg |-> ""]

NoCalls == [id \in CallIds |-> Idle]

\* readFile that yields an empty text for a file it cannot read
ReadFileResultOrEmpty(filePath) ==
  LET fullPath == Resolve(BasePath, filePath)
  IN  IF IsFileIgnored(fullPath)
      THEN [status |-> "error", msg |-> IgnoredMsg, value |-> <<>>]
      ELSE IF fullPath \in DOMAIN files
           THEN [status |-> "ok", msg |-> "", value |-> files[fullPath]]
           ELSE [status |-> "ok", msg |-> "", value |-> <<>>]

\* readFile without the test of the ignore rules
ReadFileResultUnfiltered(filePath) ==
  LET fullPath == Resolve(BasePath, filePath)
  IN  IF fullPath \in DOMAIN files
      THEN [status |-> "ok", msg |-> "", value |-> files[fullPath]]
      ELSE [status |-> "error", msg |-> "ENOENT", value |-> <<>>]

\* the outcome of FileSystem.readFile
ReadFileResult(filePath) ==
  LET fullPath == Resolve(BasePath, filePath)
  IN  IF IsFileIgnored(fullPath)
      THEN [status |-> "error", msg |-> IgnoredMsg, value |-> <<>>]
      ELSE IF fullPath \in DOMAIN files
           THEN [status |-> "ok", msg |-> "", value |-> files[fullPath]]
           ELSE [status |-> "error",
                 msg |-> IF IsDirectory(files, fullPath)
                         THEN "EISDIR" ELSE "ENOENT",
                 value |-> <<>>]

\* the outcome of FileSystem.writeFile and the disk it leaves
WriteFileResult(filePath, content) ==
  LET fullPath == Resolve(BasePath, filePath)
  IN  IF IsFileIgnored(fullPath)
      THEN [status |-> "error", msg |-> IgnoredMsg, disk |-> files]
      ELSE IF IsDirectory(files, fullPath)
           THEN [status |-> "error", msg |-> "EISDIR", disk |-> files]
           ELSE [status |-> "ok", msg |-> "",
                 disk |-> (fullPath :> content) @@ files]

\* this.ignoreRules.push(...text.split('\n').filter(rule =>
\*   rule.trim() && !rule.startsWith('#')))
PushedRules(text) ==
  LET raw == SplitOn(text, NL)
      kept == {i \in 1..Len(raw) :
                 Trim(raw[i]) # <<>> /\ ~StartsWith(raw[i], <<"#">>)}
      nth(k) == CHOOSE i \in kept : Cardinality({j \in kept : j <= i}) = k
  IN  [k \in 1..Cardinality(kept) |-> raw[nth(k)]]

\* existsSync(path): a file or a directory is there
Exists(path) == path \in DOMAIN files \/ IsDirectory(files, path)

\* LoadPrimary that reads .gitignore without asking whether it exists
LoadPrimaryRequired ==
  LET gitignorePath == Resolve(BasePath, GitignoreName)
  IN  IF gitignorePath \in DOMAIN files
      THEN [failed |-> FALSE,
            filter |-> AddPatterns(files[gitignorePath]),
            rules |-> PushedRules(files[gitignorePath])]
      ELSE [failed |-> TRUE, filter |-> <<>>, rules |-> <<>>]

\* the first part of initIgnoreFilter: .gitignore is read when it exists;
\* failed is set when the read throws
LoadPrimary ==
  LET gitignorePath == Resolve(BasePath, GitignoreName)
  IN  IF ~Exists(gitignorePath)
      THEN [failed |-> FALSE, filter |-> <<>>, rules |-> <<>>]
      ELSE IF gitignorePath \in DOMAIN files
           THEN [failed |-> FALSE,
                 filter |-> AddPatterns(files[gitignorePath]),
                 rules |-> PushedRules(files[gitignorePath])]
           ELSE [failed |-> TRUE, filter |-> <<>>, rules |-> <<>>]

RECURSIVE LoadIgnoreFiles(_, _)
\* the loop of initIgnoreFilter over the additional ignore files: a file
\* that does not exist or cannot be read is passed over
LoadIgnoreFiles(names, acc) ==
  IF names = <<>> THEN acc
  ELSE LET path == Resolve(BasePath, Head(names))
       IN  LoadIgnoreFiles(Tail(names),
             IF path \in DOMAIN files
             THEN [filter |-> acc.filter \o AddPatterns(files[path]),
                   rules |-> acc.rules \o PushedRules(files[path])]
             ELSE acc)

\* the filter and the rules initIgnoreFilter leaves: when the read of
\* .gitignore throws, the catch block resets both and the additional files
\* are not looked at
InitIgnoreFilter ==
  IF LoadPrimary.failed
  THEN [filter |-> <<>>, rules |-> <<>>]
  ELSE LoadIgnoreFiles(ConfigIgnoreFiles,
                       [filter |-> LoadPrimary.filter,
                        rules |-> LoadPrimary.rules])

\* FileSystem.init with initIgnoreFilter
FsInit ==
  /\ IF baseExists
     THEN /\ ignoreFilter' = [null |-> FALSE,
                              rules |-> InitIgnoreFilter.filter]
          /\ ignoreRules' = InitIgnoreFilter.rules
          /\ last' = [NoCall EXCEPT !.op = "init", !.status = "ok",
                                    !.value = TRUE]
     ELSE /\ last' = [NoCall EXCEPT !.op = "init", !.status = "ok",
                                    !.value = FALSE]
          /\ UNCHANGED <<ignoreFilter, ignoreRules>>
  /\ UNCHANGED <<files, baseExists, calls, telegram, configs>>

\* FileSystem.isFileIgnored
DoIsFileIgnored(filePath) ==
  /\ last' = [NoCall EXCEPT !.op = "isFileIgnored", !.path = filePath,
                            !.status = "ok",
                            !.value = IsFileIgnored(filePath)]
  /\ UNCHANGED <<files, baseExists, ignoreFilter, ignoreRules, calls,
                 telegram, configs>>

\* FileSystem.findFiles
FindFilesResult(patterns) ==
  LET found == GlobFiles(files, patterns, ignoreRules)
  IN  IF ignoreFilter.null THEN found
      ELSE {file \in found : ~IsFileIgnored(file)}

DoFindFiles(patterns) ==
  /\ last' = [NoCall EXCEPT !.op = "findFiles", !.patterns = patterns,
                            !.status = "ok",
                            !.value = FindFilesResult(patterns)]
  /\ UNCHANGED <<files, baseExists, ignoreFilter, ignoreRules, calls,
                 telegram, configs>>

\* FileSystem.readFile
DoReadFile(filePath) ==
  LET r == ReadFileResult(filePath)
  IN  /\ last' = [NoCall EXCEPT !.op = "readFile", !.path = filePath,
                                !.status = r.status, !.msg = r.msg,
                                !.value = r.value]
      /\ UNCHANGED <<files, baseExists, ignoreFilter, ignoreRules, calls,
                     telegram, configs>>

\* FileSystem.writeFile
DoWriteFile(filePath, content) ==
  LET w == WriteFileResult(filePath, content)
  IN  /\ files' = w.disk
      /\ baseExists' = (baseExists \/ w.status = "ok")
      /\ last' = [NoCall EXCEPT !.op = "writeFile", !.path = filePath,
                                !.text = content, !.status = w.status,
                                !.msg = w.msg, !.value = (w.status = "ok")]
      /\ UNCHANGED <<ignoreFilter, ignoreRules, calls, telegram, configs>>

\* the outcome of FileSystem.appendToFile and the disk it leaves
AppendToFileResult(filePath, content) ==
  LET fullPath == Resolve(BasePath, filePath)
      r == ReadFileResult(filePath)
      existingContent == IF r.status = "ok" THEN r.value ELSE <<>>
  IN  IF IsFileIgnored(fullPath)
      THEN [status |-> "error", msg |-> IgnoredMsg, disk |-> files]
      ELSE IF IsDirectory(files, fullPath)
           THEN [status |-> "error", msg |-> "EISDIR", disk |-> files]
           ELSE [status |-> "ok", msg |-> "",
                 disk |-> (fullPath :> existingContent \o <<NL>> \o content)
                            @@ files]

\* DoAppendToFile that compiles the ignore rules again from the disk it
\* leaves
DoAppendToFileReloading(filePath, content) ==
  LET w == AppendToFileResult(filePath, content)
      text == IF Abs(GitignoreName) \in DOMAIN w.disk
              THEN w.disk[Abs(GitignoreName)] ELSE <<>>
  IN  /\ files' = w.disk
      /\ baseExists' = (baseExists \/ w.status = "ok")
      /\ last' = [NoCall EXCEPT !.op = "appendToFile", !.path = filePath,
                                !.text = content, !.status = w.status,
                                !.msg = w.msg, !.value = (w.status = "ok")]
      /\ ignoreFilter' = IF ignoreFilter.null THEN ignoreFilter
                         ELSE [null |-> FALSE, rules |-> AddPatterns(text)]
      /\ ignoreRules' = IF ignoreFilter.null THEN ignoreRules
                        ELSE PushedRules(text)
      /\ UNCHANGED <<calls, telegram, configs>>

\* FileSystem.appendToFile
DoAppendToFile(filePath, content) ==
  LET w == AppendToFileResult(filePath, content)
  IN  /\ files' = w.disk
      /\ baseExists' = (baseExists \/ w.status = "ok")
      /\ last' = [NoCall EXCEPT !.op = "appendToFile", !.path = filePath,
                                !.text = content, !.status = w.status,
                                !.msg = w.msg, !.value = (w.status = "ok")]
      /\ UNCHANGED <<ignoreFilter, ignoreRules, calls, telegram, configs>>

\* FileSystem.updateTodoStatus
UpdateTodoStatus(filePath, taskDescription, completed) ==
  LET fullPath == Resolve(BasePath, filePath)
      r == ReadFileResult(filePath)
      w == WriteFileResult(filePath,
             UpdatedContent(r.value, taskDescription, completed))
      call == [NoCall EXCEPT !.op = "updateTodoStatus", !.path = filePath,
                             !.desc = taskDescription,
                             !.completed = completed]
  IN  /\ IF IsFileIgnored(fullPath)
         THEN /\ last' = [call EXCEPT !.status = "error",
                                      !.msg = IgnoredMsg, !.value = FALSE]
              /\ UNCHANGED <<files, baseExists>>
         ELSE IF r.status = "error"
              THEN /\ last' = [call EXCEPT !.status = "error",
                                           !.msg = r.msg, !.value = FALSE]
                   /\ UNCHANGED <<files, baseExists>>
              ELSE /\ files' = w.disk
                   /\ baseExists' = (baseExists \/ w.status = "ok")
                   /\ last' = [call EXCEPT !.text = r.value,
                                           !.status = w.status,
                                           !.msg = w.msg,
                                           !.value = (w.status = "ok")]
      /\ UNCHANGED <<ignoreFilter, ignoreRules, calls, telegram, configs>>

\* config.get('repository.paths.todos') and
\* config.get('repository.paths.documentation'), the defaults
TodoPatterns ==
  {<<"*", "*", "/", "T", "O", "D", "O", ".", "m", "d">>,
   <<"*", "*", "/", "T", "O", "D", "O">>}

DocPatterns == {<<"*", "*", "/", "*", ".", "m", "d">>}

\* String.prototype.indexOf, 0 when s is not in t
IndexOfSub(t, s) ==
  LET at == {i \in 1..(Len(t) - Len(s) + 1) :
               SubSeq(t, i, i + Len(s) - 1) = s}
  IN  IF at = {} THEN 0 ELSE CHOOSE i \in at : \A j \in at : i <= j

\* file.replace(this.basePath, '').replace(/^\//, '')
RelativeKey(file) ==
  LET i == IndexOfSub(file, BasePath)
      cut == IF i = 0 THEN file
             ELSE SubSeq(file, 1, i - 1) \o From(file, i + Len(BasePath))
  IN  IF Len(cut) > 0 /\ cut[1] = "/" THEN Tail(cut) ELSE cut

\* the patterns of getTodoInfo and of getDocumentationInfo
InfoPatterns(kind) ==
  IF kind = "todoInfo" THEN TodoPatterns ELSE DocPatterns

\* this.parseTodoFile(content) in getTodoInfo, this.parseMarkdownFile(content)
\* in getDocumentationInfo
ParseAs(kind, content) ==
  IF kind = "todoInfo" THEN ParseTodoFile(content)
  ELSE ParseMarkdownFile(content)

\* the loop of getTodoInfo and of getDocumentationInfo over the files
\* found: an ignored file is skipped, a read that fails ends the call
InfoLoop(found, kind) ==
  LET kept == {f \in found : ~IsFileIgnored(f)}
      bad == {f \in kept : ReadFileResult(f).status = "error"}
  IN  IF bad # {}
      THEN [status |-> "error",
            msg |-> ReadFileResult(CHOOSE f \in bad : TRUE).msg,
            value |-> <<>>]
      ELSE [status |-> "ok", msg |-> "",
            value |-> [k \in {RelativeKey(f) : f \in kept} |->
                         ParseAs(kind, files[CHOOSE f \in kept :
                                                RelativeKey(f) = k])]]

\* findFiles, then the loop over what it returned
InfoResult(kind) ==
  CHOOSE r \in {InfoLoop(found, kind) :
                  found \in {FindFilesResult(InfoPatterns(kind))}} : TRUE

\* FileSystem.getTodoInfo
DoGetTodoInfo ==
  \E r \in {InfoResult("todoInfo")} :
    /\ last' = [NoCall EXCEPT !.op = "getTodoInfo", !.status = r.status,
                              !.msg = r.msg, !.value = r.value]
    /\ UNCHANGED <<files, baseExists, ignoreFilter, ignoreRules, calls,
                   telegram, configs>>

\* FileSystem.getDocumentationInfo
DoGetDocumentationInfo ==
  \E r \in {InfoResult("docInfo")} :
    /\ last' = [NoCall EXCEPT !.op = "getDocumentationInfo",
                              !.status = r.status,
                              !.msg = r.msg, !.value = r.value]
    /\ UNCHANGED <<files, baseExists, ignoreFilter, ignoreRules, calls,
                   telegram, configs>>

\* FileSystem.parseTodoFile
DoParseTodoFile(content) ==
  /\ last' = [NoCall EXCEPT !.op = "parseTodoFile", !.text = content,
                            !.status = "ok",
                            !.value = ParseTodoFile(content)]
  /\ UNCHANGED <<files, baseExists, ignoreFilter, ignoreRules, calls,
                 telegram, configs>>

\* FileSystem.parseMarkdownFile
DoParseMarkdownFile(content) ==
  /\ last' = [NoCall EXCEPT !.op = "parseMarkdownFile", !.text = content,
                            !.status = "ok",
                            !.value = ParseMarkdownFile(content)]
  /\ UNCHANGED <<files, baseExists, ignoreFilter, ignoreRules, calls,
                 telegram, configs>>

----------------------------------------------------------------------------
(* The asynchronous calls, one step for each stretch between two awaits *)

\* the calls, other than id, that have written their file
Written(id) == {j \in CallIds \ {id} : calls[j].rank > 0}

\* updateTodoStatus up to `await readFile(fullPath)` inside this.readFile:
\* the two tests of the ignore rules
BeginUpdate(id, filePath, taskDescription, completed) ==
  LET c == [Idle EXCEPT !.kind = "update", !.path = filePath,
                        !.desc = taskDescription, !.completed = completed]
  IN  /\ calls[id].kind = "none"
      /\ calls' = [calls EXCEPT ![id] =
                     IF IsFileIgnored(Resolve(BasePath, filePath))
                     THEN [c EXCEPT !.pc = "done", !.status = "error",
                                    !.msg = IgnoredMsg]
                     ELSE [c EXCEPT !.pc = "read"]]
      /\ UNCHANGED <<files, baseExists, ignoreFilter, ignoreRules, last,
                     telegram, configs>>

\* ReadStepText that answers from the text another call holds
ReadStepTextCached(c) ==
  LET held == {j \in CallIds : calls[j].kind = "update"
                               /\ calls[j].pc = "write"}
  IN  IF held # {} THEN calls[CHOOSE j \in held : TRUE].text
      ELSE files[Resolve(BasePath, c.path)]

\* the text `await readFile(fullPath, 'utf8')` resolves to
ReadStepText(c) == files[Resolve(BasePath, c.path)]

\* the read completes; the lines are rewritten and this.writeFile runs up
\* to its first await: the test of the ignore rules
UpdateRead(id) ==
  LET c == calls[id]
      fullPath == Resolve(BasePath, c.path)
  IN  /\ c.kind = "update" /\ c.pc = "read"
      /\ calls' = [calls EXCEPT ![id] =
                     IF fullPath \notin DOMAIN files
                     THEN [c EXCEPT !.pc = "done", !.status = "error",
                                    !.msg = IF IsDirectory(files, fullPath)
                                            THEN "EISDIR" ELSE "ENOENT"]
                     ELSE IF IsFileIgnored(fullPath)
                          THEN [c EXCEPT !.pc = "done", !.status = "error",
                                         !.msg = IgnoredMsg,
                                         !.text = ReadStepText(c),
                                         !.after = Written(id)]
                          ELSE [c EXCEPT !.pc = "write",
                                         !.text = ReadStepText(c),
                                         !.after = Written(id)]]
      /\ UNCHANGED <<files, baseExists, ignoreFilter, ignoreRules, last,
                     telegram, configs>>

\* WriteStepText that rewrites the lines the file holds when it is written
WriteStepTextMerged(c) ==
  UpdatedContent(files[Resolve(BasePath, c.path)], c.desc, c.completed)

\* updatedLines.join('\n'), made from the text the call read
WriteStepText(c) == UpdatedContent(c.text, c.desc, c.completed)

\* mkdir and `await writeFile(fullPath, content, 'utf8')` complete
UpdateWrite(id) ==
  LET c == calls[id]
      fullPath == Resolve(BasePath, c.path)
  IN  /\ c.kind = "update" /\ c.pc = "write"
      /\ IF IsDirectory(files, fullPath)
         THEN /\ calls' = [calls EXCEPT ![id] =
                             [c EXCEPT !.pc = "done", !.status = "error",
                                       !.msg = "EISDIR"]]
              /\ UNCHANGED files
         ELSE /\ files' = (fullPath :> WriteStepText(c)) @@ files
              /\ calls' = [calls EXCEPT ![id] =
                             [c EXCEPT !.pc = "done", !.status = "ok",
                                       !.rank = Cardinality(Written(id)) + 1]]
      /\ baseExists' = TRUE
      /\ UNCHANGED <<ignoreFilter, ignoreRules, last, telegram, configs>>

\* getTodoInfo or getDocumentationInfo up to `await glob(...)`
BeginInfo(id, kind) ==
  /\ calls[id].kind = "none"
  /\ calls' = [calls EXCEPT ![id] = [Idle EXCEPT !.kind = kind,
                                                 !.pc = "glob"]]
  /\ UNCHANGED <<files, baseExists, ignoreFilter, ignoreRules, last, telegram,
                 configs>>

\* glob completes and findFiles returns the files to go through
InfoGlob(id) ==
  LET c == calls[id]
      found == FindFilesResult(InfoPatterns(c.kind))
  IN  /\ c.kind \in {"todoInfo", "docInfo"} /\ c.pc = "glob"
      /\ calls' = [calls EXCEPT ![id] =
                     IF found = {}
                     THEN [c EXCEPT !.pc = "done", !.status = "ok"]
                     ELSE [c EXCEPT !.pc = "read", !.queue = found]]
      /\ UNCHANGED <<files, baseExists, ignoreFilter, ignoreRules, last,
                     telegram, configs>>

\* one iteration of the loop over the files: the file is skipped when
\* ignored, else read and parsed; a read that fails ends the call
InfoRead(id) ==
  LET c == calls[id]
  IN  /\ c.kind \in {"todoInfo", "docInfo"} /\ c.pc = "read"
      /\ \E file \in c.queue :
           LET r == ReadFileResult(file)
               rest == c.queue \ {file}
               parsed == ParseAs(c.kind, r.value)
               next == [c EXCEPT !.queue = rest,
                                 !.pc = IF rest = {} THEN "done" ELSE "read",
                                 !.status = IF rest = {} THEN "ok"
                                            ELSE "none"]
           IN  calls' = [calls EXCEPT ![id] =
                 IF IsFileIgnored(file) THEN next
                 ELSE IF r.status = "error"
                      THEN [c EXCEPT !.pc = "done", !.status = "error",
                                     !.msg = r.msg, !.result = <<>>]
                      ELSE [next EXCEPT !.result =
                              (RelativeKey(file) :> parsed) @@ c.result]]
      /\ UNCHANGED <<files, baseExists, ignoreFilter, ignoreRules, last,
                     telegram, configs>>

----------------------------------------------------------------------------
(* Repobot, GitConnector, TelegramConnector and the scheduled job *)

GitDirName == <<".", "g", "i", "t">>

\* a disk where the base directory is a Git repository
WithGitDir(disk) ==
  (Abs(GitDirName \o <<"/", "H", "E", "A", "D">>) :> <<"a">>) @@ disk

\* what GitConnector.init returns: simpleGit throws when the directory is
\* missing, checkIsRepo is false outside a repository; both end in false
GitInitResult == baseExists /\ IsDirectory(files, Abs(GitDirName))

\* what FileSystem.init returns
FsInitResult == baseExists

\* what Repobot.init returns: neither init throws, so the catch is not
\* reached and the two results are dropped
RepobotInitResult == TRUE

\* Repobot.init
RepobotInit ==
  /\ IF baseExists
     THEN /\ ignoreFilter' = [null |-> FALSE,
                              rules |-> InitIgnoreFilter.filter]
          /\ ignoreRules' = InitIgnoreFilter.rules
     ELSE UNCHANGED <<ignoreFilter, ignoreRules>>
  /\ last' = [NoCall EXCEPT !.op = "Repobot.init", !.status = "ok",
                            !.value = RepobotInitResult]
  /\ UNCHANGED <<files, baseExists, calls, telegram, configs>>

\* a TelegramConnector that has not been configured: the token and the chat
\* ids that are set, whether this.bot is set, and whether the last message
\* reached the chat
NoTelegram ==
  [botToken |-> FALSE, chatId |-> FALSE, groupId |-> FALSE, bot |-> FALSE,
   delivered |-> FALSE]

\* TelegramConnector.sendMessage: what it returns, this.bot after it and
\* whether the message reached the chat; apiOk is the outcome of the call
\* of the Telegram API
SendMessageResult(apiOk) ==
  IF ~telegram.bot /\ ~telegram.botToken
  THEN [value |-> FALSE, bot |-> FALSE, delivered |-> FALSE]
  ELSE IF ~(telegram.groupId \/ telegram.chatId)
       THEN [value |-> FALSE, bot |-> TRUE, delivered |-> FALSE]
       ELSE [value |-> apiOk, bot |-> TRUE, delivered |-> apiOk]

\* what Repobot.sendReport returns: sendMessage does not throw, so the
\* catch is not reached and its result is dropped
SendReportResult(sent) == TRUE

\* Repobot.sendReport
SendReport(apiOk) ==
  LET sent == SendMessageResult(apiOk)
  IN  /\ telegram' = [telegram EXCEPT !.bot = sent.bot,
                                      !.delivered = sent.delivered]
      /\ last' = [NoCall EXCEPT !.op = "sendReport", !.status = "ok",
                                !.value = SendReportResult(sent)]
      /\ UNCHANGED <<files, baseExists, ignoreFilter, ignoreRules, calls,
                     configs>>

SentMsg == "Report sent successfully"
\* the job scheduled by runCommand: generateReport, which may throw, then
\* sendReport, then the log line
ScheduledJob(generated, apiOk) ==
  LET sent == SendMessageResult(apiOk)
  IN  /\ IF generated
         THEN /\ telegram' = [telegram EXCEPT !.bot = sent.bot,
                                              !.delivered = sent.delivered]
              /\ last' = [NoCall EXCEPT !.op = "scheduledJob",
                                        !.status = "ok", !.msg = SentMsg,
                                        !.value = SendReportResult(sent)]
         ELSE /\ last' = [NoCall EXCEPT !.op = "scheduledJob",
                                        !.status = "ok",
                                        !.msg = "Failed to generate or send scheduled report"]
              /\ UNCHANGED telegram
      /\ UNCHANGED <<files, baseExists, ignoreFilter, ignoreRules, calls,
                     configs>>

----------------------------------------------------------------------------
(* Config: DEFAULT_CONFIG and the instances made from it *)

MaxConfigs == 2

Undefined == "undefined"

\* the sections of DEFAULT_CONFIG that hold strings
DefaultConfig ==
  [ai |-> [provider |-> "openai", model |-> "gpt-4"],
   telegram |-> <<>>,
   reporting |-> [schedule |-> "0 9 * * 1-5", template |-> "daily"]]

\* the objects of DEFAULT_CONFIG as they are now, and the instances: for
\* each section an instance holds the object of DEFAULT_CONFIG (shared) or
\* an object of its own
NoConfigs == [defaults |-> DefaultConfig, instances |-> <<>>]

\* { ...DEFAULT_CONFIG, ...options }: the sections of options are objects
\* of the instance, the other sections are the objects of DEFAULT_CONFIG
Spread(options) ==
  [s \in DOMAIN DefaultConfig |->
     IF s \in DOMAIN options THEN [shared |-> FALSE, obj |-> options[s]]
     ELSE [shared |-> TRUE, obj |-> <<>>]]

\* the object an instance holds for a section
SectionOf(c, i, s) ==
  IF c.instances[i][s].shared THEN c.defaults[s] ELSE c.instances[i][s].obj

\* ConfigSchema.parse, for string values: ai needs a provider
SchemaAccepts(c, i) == "provider" \in DOMAIN SectionOf(c, i, "ai")

\* Config.get for a path of a section and a key
GetIn(c, i, path) ==
  IF path[1] \notin DOMAIN DefaultConfig THEN Undefined
  ELSE IF path[2] \in DOMAIN SectionOf(c, i, path[1])
       THEN SectionOf(c, i, path[1])[path[2]]
       ELSE Undefined

\* Config.set for a path of a section and a key: current[lastKey] = value
\* on the object the instance holds for the section
SetIn(c, i, path, value) ==
  IF c.instances[i][path[1]].shared
  THEN [c EXCEPT !.defaults[path[1]] = (path[2] :> value) @@ @]
  ELSE [c EXCEPT !.instances[i][path[1]].obj = (path[2] :> value) @@ @]

\* new Config(options)
NewConfig(options) ==
  /\ Len(configs.instances) < MaxConfigs
  /\ LET made == [configs EXCEPT !.instances = Append(@, Spread(options))]
     IN  IF SchemaAccepts(made, Len(made.instances))
         THEN /\ configs' = made
              /\ last' = [NoCall EXCEPT !.op = "Config", !.status = "ok",
                                        !.instance = Len(made.instances),
                                        !.value = options]
         ELSE /\ last' = [NoCall EXCEPT !.op = "Config",
                                        !.status = "error",
                                        !.value = options]
              /\ UNCHANGED configs
  /\ UNCHANGED <<files, baseExists, ignoreFilter, ignoreRules, calls,
                 telegram>>

\* Config.get
ConfigGet(i, path) ==
  /\ i \in 1..Len(configs.instances)
  /\ last' = [NoCall EXCEPT !.op = "Config.get", !.status = "ok",
                            !.instance = i, !.path = path,
                            !.value = GetIn(configs, i, path)]
  /\ UNCHANGED <<files, baseExists, ignoreFilter, ignoreRules, calls,
                 telegram, configs>>

\* Config.set
ConfigSet(i, path, value) ==
  /\ i \in 1..Len(configs.instances)
  /\ configs' = SetIn(configs, i, path, value)
  /\ last' = [NoCall EXCEPT !.op = "Config.set", !.instance = i,
                            !.path = path, !.text = value,
                            !.status = IF SchemaAccepts(configs', i)
                                       THEN "ok" ELSE "error"]
  /\ UNCHANGED <<files, baseExists, ignoreFilter, ignoreRules, calls,
                 telegram>>

----------------------------------------------------------------------------
(* Inputs *)

\* all sequences of 1..n elements of a set
SeqsUpTo(S, n) == UNION {[1..k -> S] : k \in 1..n}

\* lines of a TODO file: two task lines that differ in bullet, whitespace
\* and marker, one with a description that repeats the marker, a near
\* miss, a blank line
TodoLines ==
  {<<"-", " ", "[", " ", "]", " ", "a">>,
   <<"*", "\t", "[", "x", "]", " ", "b", "[", " ", "]">>,
   <<"-", " ", "[", "X", "]", " ", "a">>,
   <<>>}

\* substrings: one per task line, the two markers, the empty string
TaskDescriptions ==
  {<<"a">>,
   <<"b">>,
   <<"[", " ", "]">>,
   <<"[", "x", "]">>,
   <<>>}

----------------------------------------------------------------------------
(* updateTodoStatus on one TODO file *)

InitUpdate ==
  /\ \E text \in {JoinWith(ls, NL) : ls \in SeqsUpTo(TodoLines, MaxLines)} :
       files = (Abs(TodoName) :> text)
  /\ baseExists = TRUE
  /\ ignoreFilter = [null |-> TRUE, rules |-> <<>>]
  /\ ignoreRules = <<>>
  /\ last = NoCall
  /\ calls = NoCalls
  /\ telegram = NoTelegram
  /\ configs = NoConfigs

NextUpdate ==
  \E d \in TaskDescriptions, c \in BOOLEAN : UpdateTodoStatus(TodoName, d, c)

SpecUpdate == InitUpdate /\ [][NextUpdate]_vars

\* the call that led to this state is a successful updateTodoStatus
Updated == last.op = "updateTodoStatus" /\ last.status = "ok"

\* the lines read and the lines written by the last updateTodoStatus
LinesBefore == SplitOn(last.text, NL)
LinesAfter == SplitOn(files[Resolve(BasePath, last.path)], NL)

\* a line the call has to rewrite: a task line that contains the substring
Selected(line) == TaskMatch(line) /\ Includes(line, last.desc)

\* the position of the checkbox character of a task line
CheckboxPos(line) == IndexOfChar(line, "[") + 1

Marker(completed) == IF completed THEN "x" ELSE " "

\* C1: after a successful updateTodoStatus the file has as many lines as the
\* text that was read, every line that is not a task line containing the
\* substring is the line that was read, and a task line containing it
\* differs from the line read at most in its checkbox character
C1_LinesPreserved ==
  Updated =>
    LET old == LinesBefore
        new == LinesAfter
    IN  /\ Len(new) = Len(old)
        /\ \A i \in 1..Len(old) :
             IF Selected(old[i])
             THEN /\ Len(new[i]) = Len(old[i])
                  /\ \A j \in 1..Len(old[i]) :
                       j # CheckboxPos(old[i]) => new[i][j] = old[i][j]
             ELSE new[i] = old[i]

\* a call that rewrote one task line and left another task line alone
C1_Witness ==
  /\ Updated
  /\ \E i, j \in 1..Len(LinesBefore) :
       /\ Selected(LinesBefore[i]) /\ LinesAfter[i] # LinesBefore[i]
       /\ TaskMatch(LinesBefore[j]) /\ ~Selected(LinesBefore[j])
       /\ TaskMark(LinesBefore[j]) # Marker(last.completed)

\* C2: an updateTodoStatus call that repeats the previous call (same path,
\* substring and completed) leaves every file as the previous call left it
C2_Idempotent ==
  [][(/\ last.op = "updateTodoStatus"
      /\ last'.op = "updateTodoStatus"
      /\ last'.path = last.path
      /\ last'.desc = last.desc
      /\ last'.completed = last.completed) => files' = files]_vars

\* a call with the substring "[ ]" that read a file holding a task line
\* with that substring and wrote the same text back
C2_Witness ==
  /\ Updated
  /\ last.desc = <<"[", " ", "]">>
  /\ last.completed
  /\ \E i \in 1..Len(LinesBefore) : Selected(LinesBefore[i])
  /\ LinesAfter = LinesBefore

\* C3: after a successful updateTodoStatus every task line that contained
\* the substring carries the requested marker
C3_AllRewritten ==
  Updated =>
    LET old == LinesBefore
        new == LinesAfter
    IN  \A i \in 1..Len(old) :
          Selected(old[i]) =>
            /\ i <= Len(new)
            /\ TaskMatch(new[i])
            /\ TaskMark(new[i]) = Marker(last.completed)

\* a call that had three task lines to rewrite, none with the marker yet
C3_Witness ==
  /\ Updated
  /\ Cardinality({i \in 1..Len(LinesBefore) :
                    /\ Selected(LinesBefore[i])
                    /\ TaskMark(LinesBefore[i]) # Marker(last.completed)})
       >= 3

----------------------------------------------------------------------------
(* Ignore rules: init and isFileIgnored over lists of rules *)

StarLog == <<"*", ".", "l", "o", "g">>
NotKeepLog == <<"!", "k", "e", "e", "p", ".", "l", "o", "g">>
BuildSlash == <<"b", "u", "i", "l", "d", "/">>
NotBuildOut == <<"!", "b", "u", "i", "l", "d", "/", "o", "u", "t", ".", "t", "x", "t">>
NotBuildSlash == <<"!", "b", "u", "i", "l", "d", "/">>
OutTxt == <<"o", "u", "t", ".", "t", "x", "t">>
RootBuild == <<"/", "b", "u", "i", "l", "d">>
StarMd == <<"*", ".", "m", "d">>

\* pattern lines of a .gitignore: a wildcard, negations of a file and of a
\* directory, a directory rule, a name, a rooted name
RulePool ==
  {StarLog, NotKeepLog, BuildSlash, NotBuildOut, NotBuildSlash, OutTxt,
   RootBuild}

\* the files below the base, besides the ignore files
PlainDisk ==
  [f \in {Abs(n) : n \in {TodoName, KeepLog, OtherLog, BuildOut, BuildKeep,
                          RebuildOut}} |-> <<"a">>]

InitIgnore ==
  /\ \/ files = PlainDisk
     \/ \E rules \in SeqsUpTo(RulePool, MaxRules) :
          files = (Abs(GitignoreName) :> JoinWith(rules, NL)) @@ PlainDisk
  /\ baseExists = TRUE
  /\ ignoreFilter = [null |-> TRUE, rules |-> <<>>]
  /\ ignoreRules = <<>>
  /\ last = NoCall
  /\ calls = NoCalls
  /\ telegram = NoTelegram
  /\ configs = NoConfigs

NextIgnore ==
  \/ FsInit
  \/ \E p \in {KeepLog, OtherLog, BuildDir, BuildOut, BuildKeep, RebuildOut,
              TodoName, Abs(KeepLog), Abs(BuildOut)} : DoIsFileIgnored(p)

SpecIgnore == InitIgnore /\ [][NextIgnore]_vars

\* the last call is isFileIgnored
Asked == last.op = "isFileIgnored"

\* the segments of the normalized form of the path asked about
AskedSegs == SplitOn(GetRelativePath(last.path), "/")

\* the path made of the first n segments is a directory when n is not all
IsLastRuleExcluding(rules, psegs, n) ==
  LET on == {i \in 1..Len(rules) :
               RuleMatches(rules[i], SubSeq(psegs, 1, n), n < Len(psegs))}
  IN  /\ on # {}
      /\ ~RuleNegative(rules[CHOOSE i \in on : \A j \in on : j <= i])

\* a rule matches a path when its pattern matches the path or one of the
\* directories above it
Covers(rule, psegs) ==
  \E n \in 1..Len(psegs) :
    RuleMatches(rule, SubSeq(psegs, 1, n), n < Len(psegs))

\* C5 as stated: isFileIgnored is the polarity of the last rule of the list
\* that matches the path, whatever the rules say about its directories
C5_LastRuleDecides ==
  (Asked /\ ~ignoreFilter.null) =>
    LET rules == ignoreFilter.rules
        on == {i \in 1..Len(rules) : Covers(rules[i], AskedSegs)}
    IN  last.value =
          (/\ on # {}
           /\ ~RuleNegative(rules[CHOOSE i \in on : \A j \in on : j <= i]))

\* C5 amended: a path is ignored iff, for the path itself or for one of the
\* directories above it, the last rule that matches it is not a negation;
\* with the rules "*.log", "!keep.log", keep.log is not ignored and
\* other.log is
C5_LastRuleDecidesPerLevel ==
  (Asked /\ ~ignoreFilter.null) =>
    /\ last.value =
         (\E n \in 1..Len(AskedSegs) :
            IsLastRuleExcluding(ignoreFilter.rules, AskedSegs, n))
    /\ (ignoreFilter.rules = <<StarLog, NotKeepLog>> /\ last.path = KeepLog)
         => last.value = FALSE
    /\ (ignoreFilter.rules = <<StarLog, NotKeepLog>> /\ last.path = OtherLog)
         => last.value = TRUE

\* keep.log asked about under the rules "*.log", "!keep.log"
C5_Witness ==
  /\ Asked
  /\ ignoreFilter.rules = <<StarLog, NotKeepLog>>
  /\ last.path = KeepLog
  /\ last.value = FALSE

\* C6: when the filter was never initialized, or no rule of the list
\* matches the path or a directory above it, isFileIgnored is false
C6_NoMatchNotIgnored ==
  (/\ Asked
   /\ \/ ignoreFilter.null
      \/ \A i \in 1..Len(ignoreFilter.rules) :
           ~Covers(ignoreFilter.rules[i], AskedSegs)) => last.value = FALSE

\* a path asked about under rules none of which matches it
C6_Witness ==
  /\ Asked
  /\ ~ignoreFilter.null
  /\ Len(ignoreFilter.rules) >= 2
  /\ \A i \in 1..Len(ignoreFilter.rules) :
       ~Covers(ignoreFilter.rules[i], AskedSegs)
  /\ last.value = FALSE

\* C7: with the single rule "build/", build/out.txt and build are ignored
\* and rebuild/out.txt is not
C7_DirectoryRule ==
  (Asked /\ ~ignoreFilter.null /\ ignoreFilter.rules = <<BuildSlash>>) =>
    /\ last.path = BuildOut => last.value = TRUE
    /\ last.path = BuildDir => last.value = TRUE
    /\ last.path = RebuildOut => last.value = FALSE

----------------------------------------------------------------------------
(* The FileSystem instance over a small repository *)

\* the texts of .gitignore: a negation after a wildcard, a directory rule,
\* a comment with a rule that hides the TODO file and a blank line
IgnoreTexts ==
  {JoinWith(<<StarLog, NotKeepLog>>, NL),
   JoinWith(<<BuildSlash>>, NL),
   JoinWith(<<<<"#", " ", "c">>, StarMd, <<>> >>, NL)}

RepoDisk ==
  (Abs(TodoName) :> <<"-", " ", "[", " ", "]", " ", "a", "\n",
                      "-", " ", "[", "x", "]", " ", "a", "b">>) @@ PlainDisk

\* the paths given to readFile and updateTodoStatus: files, a missing
\* file, a directory
CallPaths == {TodoName, OtherLog, MissingName, BuildDir}

\* a disk where name is a directory
AsDirectory(name, disk) == (Abs(name \o <<"/", "x">>) :> <<"a">>) @@ disk

Init ==
  /\ \/ files = RepoDisk
     \/ \E text \in IgnoreTexts :
          files = (Abs(GitignoreName) :> text) @@ RepoDisk
     \/ files = AsDirectory(GitignoreName, RepoDisk)
  /\ baseExists = TRUE
  /\ ignoreFilter = [null |-> TRUE, rules |-> <<>>]
  /\ ignoreRules = <<>>
  /\ last = NoCall
  /\ calls = NoCalls
  /\ telegram = NoTelegram
  /\ configs = NoConfigs

Next ==
  \/ FsInit
  \/ \E p \in {KeepLog, OtherLog, BuildOut, Abs(TodoName)} :
       DoIsFileIgnored(p)
  \/ \E ps \in {{<<"*", ".", "l", "o", "g">>},
                 {<<"*", "*", "/", "*", ".", "t", "x", "t">>},
                 {<<"*", "*", "/", "*", ".", "m", "d">>,
                  <<"*", ".", "l", "o", "g">>}} : DoFindFiles(ps)
  \/ \E p \in CallPaths : DoReadFile(p)
  \/ \E p \in {OtherLog, MissingName} :
       DoWriteFile(p, <<"-", " ", "[", "x", "]", " ", "a">>)
  \/ \E p \in CallPaths, c \in BOOLEAN : UpdateTodoStatus(p, <<"a">>, c)
  \/ DoGetTodoInfo
  \/ DoGetDocumentationInfo

Spec == Init /\ [][Next]_vars

\* C4: an updateTodoStatus call on a path that does not exist or that the
\* ignore rules exclude ends in an error and leaves every file as it was,
\* creating none
C4_NoWriteOnFailure ==
  [][(/\ last'.op = "updateTodoStatus"
      /\ LET fullPath == Resolve(BasePath, last'.path)
         IN  fullPath \notin DOMAIN files \/ IsFileIgnored(fullPath))
     => (last'.status = "error" /\ files' = files)]_vars

\* a call refused for a file that is on the disk and ignored
C4_Witness ==
  /\ last.op = "updateTodoStatus"
  /\ last.status = "error"
  /\ last.msg = IgnoredMsg
  /\ Resolve(BasePath, last.path) \in DOMAIN files

\* C8: findFiles returns no ignored path, and returns every file that is
\* not ignored and is matched by one of the patterns
C8_FindFilesExact ==
  last.op = "findFiles" =>
    /\ \A p \in last.value : ~IsFileIgnored(p)
    /\ \A f \in DOMAIN files :
         (/\ ~IsFileIgnored(f)
          /\ \E pat \in last.patterns :
               MiniMatch(NormSegs(SplitOn(pat, "/"), <<>>),
                         SplitOn(Relative(BasePath, f), "/"), FALSE))
           => f \in last.value

\* C9: readFile fails with the gitignore error and no content on an ignored
\* path, fails on a path that does not exist, and returns the exact content
\* of an existing file that is not ignored
C9_ReadFile ==
  last.op = "readFile" =>
    LET fullPath == Resolve(BasePath, last.path)
    IN  /\ IsFileIgnored(fullPath) =>
             /\ last.status = "error"
             /\ last.msg = IgnoredMsg
             /\ last.value = <<>>
        /\ fullPath \notin DOMAIN files => last.status = "error"
        /\ (~IsFileIgnored(fullPath) /\ fullPath \in DOMAIN files) =>
             (last.status = "ok" /\ last.value = files[fullPath])

\* a read refused for a file that is on the disk and ignored
C9_Witness ==
  /\ last.op = "readFile"
  /\ Resolve(BasePath, last.path) \in DOMAIN files
  /\ IsFileIgnored(Resolve(BasePath, last.path))
  /\ last.status = "error"

----------------------------------------------------------------------------
(* parseTodoFile and parseMarkdownFile over texts *)

\* lines of a TODO or Markdown file: headers of two levels, a header whose
\* title is blank, a header titled Uncategorized, task lines (one with
\* whitespace around its description, one with an upper-case marker), an
\* empty line and a line of whitespace
ParseLines ==
  {<<"#", " ", "H">>,
   <<"#", " ", " ">>,
   <<"#", "#", " ", "S", " ">>,
   <<"#", " ", "U", "n", "c", "a", "t", "e", "g", "o", "r", "i", "z", "e", "d">>,
   <<"-", " ", "[", " ", "]", " ", "a">>,
   <<"-", " ", "[", "x", "]", " ", "a", "b">>,
   <<"*", "\t", "[", "x", "]", " ", " ", "b", " ">>,
   <<"-", " ", "[", "X", "]", " ", "a">>,
   <<"-", " ", "[", "]", " ", "a">>,
   <<"-", "[", " ", "]", " ", "a">>,
   <<>>,
   <<" ">>}

InitParse ==
  /\ \E text \in {JoinWith(ls, NL) : ls \in SeqsUpTo(ParseLines, MaxLines)} :
       files = (Abs(TodoName) :> text) @@ PlainDisk
  /\ baseExists = TRUE
  /\ ignoreFilter = [null |-> TRUE, rules |-> <<>>]
  /\ ignoreRules = <<>>
  /\ last = NoCall
  /\ calls = NoCalls
  /\ telegram = NoTelegram
  /\ configs = NoConfigs

\* the text of the file is read and parsed, as getTodoInfo and
\* getDocumentationInfo do
NextParse ==
  \/ DoParseTodoFile(files[Abs(TodoName)])
  \/ DoParseMarkdownFile(files[Abs(TodoName)])

SpecParse == InitParse /\ [][NextParse]_vars

Parsed == last.op = "parseTodoFile"

ParsedLines == SplitOn(last.text, NL)

\* the position of the line of the k-th task of the text
TaskLineAt(lines, k) ==
  CHOOSE i \in 1..Len(lines) :
    /\ TaskMatch(lines[i])
    /\ Cardinality({j \in 1..i : TaskMatch(lines[j])}) = k

\* the header lines above line i
HeadersBefore(lines, i) == {j \in 1..(i - 1) : SectionMatch(lines[j])}

\* the trimmed text of the nearest header above line i
NearestHeader(lines, i) ==
  LET hs == HeadersBefore(lines, i)
  IN  Trim(SectionText(lines[CHOOSE j \in hs : \A h \in hs : h <= j]))

\* C10 as stated: a task's section is the trimmed text of the nearest header
\* above it, and it is "Uncategorized" iff no header is above it
C10_SectionIsNearestHeader ==
  Parsed =>
    LET lines == ParsedLines
        tasks == last.value.tasks
    IN  \A k \in 1..Len(tasks) :
          LET i == TaskLineAt(lines, k)
          IN  /\ HeadersBefore(lines, i) # {}
                   => tasks[k].section = NearestHeader(lines, i)
              /\ tasks[k].section = Uncategorized
                   <=> HeadersBefore(lines, i) = {}

\* C10 amended: a task's section is the trimmed text of the nearest header
\* above it when that text is not empty, and "Uncategorized" when no header
\* is above it or the text of the nearest one is empty
C10_SectionOrUncategorized ==
  Parsed =>
    LET lines == ParsedLines
        tasks == last.value.tasks
    IN  \A k \in 1..Len(tasks) :
          LET i == TaskLineAt(lines, k)
          IN  tasks[k].section =
                IF HeadersBefore(lines, i) = {}
                THEN Uncategorized
                ELSE IF NearestHeader(lines, i) = <<>>
                     THEN Uncategorized
                     ELSE NearestHeader(lines, i)

\* a task below two headers with different titles
C10_Witness ==
  /\ Parsed
  /\ \E k \in 1..Len(last.value.tasks) :
       LET lines == ParsedLines
           i == TaskLineAt(lines, k)
           hs == HeadersBefore(lines, i)
       IN  /\ Cardinality(hs) >= 2
           /\ \E h \in hs :
                Trim(SectionText(lines[h])) # NearestHeader(lines, i)
           /\ last.value.tasks[k].section = NearestHeader(lines, i)
           /\ NearestHeader(lines, i) # <<>>

\* the task grammar ^[-*]\s+\[([ x])\]\s+(.+)$ read position by position:
\* a bullet, whitespace, "[", a blank or "x", "]", whitespace, and one or
\* more characters up to the end of the line
TaskShape(line) ==
  \E k \in 3..Len(line) :
    /\ line[1] \in {"-", "*"}
    /\ \A j \in 2..(k - 1) : IsSpace(line[j])
    /\ line[k] = "["
    /\ Len(line) >= k + 4
    /\ line[k + 1] \in {" ", "x"}
    /\ line[k + 2] = "]"
    /\ \E m \in (k + 3)..(Len(line) - 1) :
         /\ \A j \in (k + 3)..m : IsSpace(line[j])
         /\ AllDot(From(line, m + 1))

\* the k-th element of a set of line numbers
NthOf(S, k) == CHOOSE i \in S : Cardinality({j \in S : j <= i}) = k

\* the text of a task line after its checkbox
AfterBox(line) == From(line, IndexOfChar(line, "]") + 1)

\* C11: parseTodoFile returns as many tasks as the text has lines of the
\* task grammar (so headers and other lines yield none); the k-th task comes
\* from the k-th such line, is completed iff the checkbox character of that
\* line is "x", and its description is the trimmed text after the checkbox
C11_OneTaskPerTaskLine ==
  Parsed =>
    LET lines == ParsedLines
        tasks == last.value.tasks
        at == {i \in 1..Len(lines) : TaskShape(lines[i])}
    IN  /\ Len(tasks) = Cardinality(at)
        /\ \A k \in 1..Len(tasks) :
             LET line == lines[NthOf(at, k)]
             IN  /\ tasks[k].completed
                      = (line[IndexOfChar(line, "[") + 1] = "x")
                 /\ tasks[k].description = Trim(AfterBox(line))

\* a text with a line with an upper-case marker and two task lines, the
\* first open and the second completed, with whitespace around its
\* description
C11_Witness ==
  /\ Parsed
  /\ Len(ParsedLines) = 3
  /\ Len(last.value.tasks) = 2
  /\ ~last.value.tasks[1].completed
  /\ last.value.tasks[2].completed
  /\ last.value.tasks[2].description = <<"b">>
  /\ ParsedLines[3] = <<"*", "\t", "[", "x", "]", " ", " ", "b", " ">>
  /\ \E i \in 1..Len(ParsedLines) :
       ParsedLines[i] = <<"-", " ", "[", "X", "]", " ", "a">>

\* the first task that has the given section
FirstTaskIn(tasks, section) ==
  CHOOSE k \in 1..Len(tasks) :
    /\ tasks[k].section = section
    /\ \A j \in 1..(k - 1) : tasks[j].section # section

\* C12: the sections returned by parseTodoFile hold no value twice, hold
\* exactly the section values of the tasks, and are in the order in which
\* the tasks first use them; a header whose title no task has for its
\* section is not listed
C12_SectionsOfTasks ==
  Parsed =>
    LET tasks == last.value.tasks
        sections == last.value.sections
        lines == ParsedLines
    IN  /\ \A i, j \in 1..Len(sections) :
             i # j => sections[i] # sections[j]
        /\ {sections[i] : i \in 1..Len(sections)}
             = {tasks[k].section : k \in 1..Len(tasks)}
        /\ \A i, j \in 1..Len(sections) :
             i < j => FirstTaskIn(tasks, sections[i])
                        < FirstTaskIn(tasks, sections[j])
        /\ \A h \in 1..Len(lines) :
             (/\ SectionMatch(lines[h])
              /\ \A k \in 1..Len(tasks) :
                   tasks[k].section # Trim(SectionText(lines[h])))
               => \A i \in 1..Len(sections) :
                    sections[i] # Trim(SectionText(lines[h]))

\* a text whose tasks use the same section twice, below a header that has
\* no task
C12_Witness ==
  /\ Parsed
  /\ Len(last.value.tasks) = 2
  /\ last.value.tasks[1].section = last.value.tasks[2].section
  /\ Len(last.value.sections) = 1
  /\ \E h \in 1..Len(ParsedLines) :
       /\ SectionMatch(ParsedLines[h])
       /\ Trim(SectionText(ParsedLines[h])) # <<>>
       /\ Trim(SectionText(ParsedLines[h])) # last.value.sections[1]

ParsedMd == last.op = "parseMarkdownFile"

\* the first header line after line i, or the line after the last one
NextHeader(lines, i) ==
  LET hs == {j \in (i + 1)..Len(lines) : SectionMatch(lines[j])}
  IN  IF hs = {} THEN Len(lines) + 1
      ELSE CHOOSE j \in hs : \A h \in hs : j <= h

\* the lines below header i, up to the next header, that are not blank
BodyLines(lines, i) ==
  {j \in (i + 1)..(NextHeader(lines, i) - 1) : ~AllSpace(lines[j])}

\* those lines as a sequence, in file order
Body(lines, i) ==
  LET at == BodyLines(lines, i)
  IN  [m \in 1..Cardinality(at) |-> lines[NthOf(at, m)]]

\* the number of "#" a line starts with
LeadingHashes(line) ==
  Cardinality({n \in 1..Len(line) : \A j \in 1..n : line[j] = "#"})

\* C13: parseMarkdownFile returns one section for each header that has a
\* non-blank, non-header line below it before the next header or the end,
\* and none for any other header, in file order; a text of headers only has
\* no sections and an empty title
C13_SectionIffContent ==
  ParsedMd =>
    LET lines == ParsedLines
        sections == last.value.sections
        emit == {i \in 1..Len(lines) :
                   SectionMatch(lines[i]) /\ BodyLines(lines, i) # {}}
    IN  /\ Len(sections) = Cardinality(emit)
        /\ \A k \in 1..Len(sections) :
             sections[k].title = Trim(SectionText(lines[NthOf(emit, k)]))
        /\ (\A i \in 1..Len(lines) : SectionMatch(lines[i]))
             => (sections = <<>> /\ last.value.title = <<>>)

\* C14: the title returned by parseMarkdownFile is the title of the first
\* section returned when there is one, it is empty exactly when no section
\* is returned, and it is empty for a text without headers
C14_TitleOfFirstSection ==
  ParsedMd =>
    LET sections == last.value.sections
    IN  /\ Len(sections) > 0 => last.value.title = sections[1].title
        /\ last.value.title = <<>> <=> Len(sections) = 0
        /\ (\A i \in 1..Len(ParsedLines) : ~SectionMatch(ParsedLines[i]))
             => last.value.title = <<>>

\* a text whose first header has nothing below it and whose second header
\* has: the title is that of the second header
C14_Witness ==
  /\ ParsedMd
  /\ Len(last.value.sections) = 1
  /\ SectionMatch(ParsedLines[1])
  /\ last.value.title # Trim(SectionText(ParsedLines[1]))
  /\ last.value.title = <<"S">>

\* C15: every section returned by parseMarkdownFile comes from a header
\* line: its level is the number of "#" the header starts with and its
\* content is the non-blank lines from that header to the next one, in file
\* order and as they are in the file; so a line above the first header is
\* in no section
C15_LevelAndContent ==
  ParsedMd =>
    LET lines == ParsedLines
        sections == last.value.sections
    IN  \A k \in 1..Len(sections) :
          \E i \in 1..Len(lines) :
            /\ SectionMatch(lines[i])
            /\ sections[k].title = Trim(SectionText(lines[i]))
            /\ sections[k].level = LeadingHashes(lines[i])
            /\ sections[k].content = Body(lines, i)

\* a text with a task line above a header of level 2 and a line of
\* whitespace and a task line below it
C15_Witness ==
  /\ ParsedMd
  /\ Len(ParsedLines) = 3
  /\ TaskShape(ParsedLines[1])
  /\ Len(last.value.sections) = 1
  /\ last.value.sections[1].level = 2
  /\ last.value.sections[1].content = <<ParsedLines[3]>>
  /\ ParsedLines[3] # ParsedLines[1]

----------------------------------------------------------------------------
(* Calls in flight together *)

DocsTodo == <<"d", "o", "c", "s", "/", "T", "O", "D", "O", ".", "m", "d">>

\* two TODO files and a .gitignore that hides neither
RaceDisk ==
  (Abs(TodoName) :> <<"-", " ", "[", " ", "]", " ", "a", "\n",
                      "-", " ", "[", " ", "]", " ", "b">>)
    @@ (Abs(DocsTodo) :> <<"#", " ", "H", "\n",
                           "-", " ", "[", "x", "]", " ", "a", "\n",
                           "-", " ", "[", " ", "]", " ", "b">>)
    @@ (Abs(GitignoreName) :> BuildSlash)

\* the instance as constructed, or after init()
InitRace ==
  /\ files = RaceDisk
  /\ baseExists = TRUE
  /\ \/ /\ ignoreFilter = [null |-> TRUE, rules |-> <<>>]
        /\ ignoreRules = <<>>
     \/ /\ ignoreFilter = [null |-> FALSE, rules |-> InitIgnoreFilter.filter]
        /\ ignoreRules = InitIgnoreFilter.rules
  /\ last = NoCall
  /\ calls = NoCalls
  /\ telegram = NoTelegram
  /\ configs = NoConfigs

\* the first call is an updateTodoStatus or the getTodoInfo of
\* gatherContext, the second an updateTodoStatus or its getDocumentationInfo
NextRace ==
  \E id \in CallIds :
    \/ \E p \in {TodoName, DocsTodo}, d \in {<<"a">>, <<"b">>}, c \in BOOLEAN :
         BeginUpdate(id, p, d, c)
    \/ BeginInfo(id, IF id = 1 THEN "todoInfo" ELSE "docInfo")
    \/ UpdateRead(id)
    \/ UpdateWrite(id)
    \/ InfoGlob(id)
    \/ InfoRead(id)

SpecRace == InitRace /\ [][NextRace]_vars

\* both calls are updateTodoStatus calls that have returned
TwoUpdatesDone ==
  \A id \in CallIds : calls[id].kind = "update" /\ calls[id].pc = "done"

\* the file of a call
Target(id) == Resolve(BasePath, calls[id].path)

\* the text updateTodoStatus leaves when it runs alone on a text
Edited(text, id) ==
  UpdatedContent(text, calls[id].desc, calls[id].completed)

\* C16: when two updateTodoStatus calls on the same file have both read it
\* before either wrote it, both return success and the file holds the
\* original text with the edit of the call that wrote last, and nothing of
\* the edit of the other call
C16_LastWriteWins ==
  (/\ TwoUpdatesDone
   /\ Target(1) = Target(2)
   /\ calls[1].after = {} /\ calls[2].after = {}) =>
    LET later == CHOOSE id \in CallIds : calls[id].rank = 2
    IN  /\ \A id \in CallIds : calls[id].status = "ok"
        /\ files[Target(1)] = Edited(RaceDisk[Target(1)], later)

\* two calls that mark different lines of the same file: the line of the
\* call that wrote first is as it was before
C16_Witness ==
  /\ TwoUpdatesDone
  /\ Target(1) = Target(2)
  /\ calls[1].after = {} /\ calls[2].after = {}
  /\ \A id \in CallIds : calls[id].status = "ok"
  /\ \E first, later \in CallIds :
       /\ calls[first].rank = 1 /\ calls[later].rank = 2
       /\ Edited(RaceDisk[Target(1)], first) # RaceDisk[Target(1)]
       /\ files[Target(1)]
            # Edited(Edited(RaceDisk[Target(1)], first), later)

\* C17: two updateTodoStatus calls on different files leave, however their
\* steps interleave, each file as the call alone leaves it and both return
\* success; a getTodoInfo together with a getDocumentationInfo return what
\* each returns alone and leave the disk as it was
C17_DifferentFilesSafe ==
  /\ (TwoUpdatesDone /\ Target(1) # Target(2)) =>
       /\ \A id \in CallIds :
            /\ calls[id].status = "ok"
            /\ files[Target(id)] = Edited(RaceDisk[Target(id)], id)
       /\ \A f \in DOMAIN RaceDisk \ {Target(1), Target(2)} :
            files[f] = RaceDisk[f]
       /\ DOMAIN files = DOMAIN RaceDisk
  /\ (/\ calls[1].kind = "todoInfo" /\ calls[1].pc = "done"
      /\ calls[2].kind = "docInfo" /\ calls[2].pc = "done") =>
       /\ calls[1].status = InfoResult("todoInfo").status
       /\ calls[1].result = InfoResult("todoInfo").value
       /\ calls[2].status = InfoResult("docInfo").status
       /\ calls[2].result = InfoResult("docInfo").value
       /\ files = RaceDisk

\* two calls on different files, both read before either is written, and
\* both files changed
C17_Witness ==
  /\ TwoUpdatesDone
  /\ Target(1) # Target(2)
  /\ calls[1].after = {} /\ calls[2].after = {}
  /\ \A id \in CallIds : files[Target(id)] # RaceDisk[Target(id)]

----------------------------------------------------------------------------
(* init over the ignore files *)

\* the texts of an ignore file
LoadTexts == {JoinWith(ls, NL) : ls \in SeqsUpTo({StarLog, NotKeepLog}, 2)}

\* the disks with name missing, a directory, or a file with one of the texts
WithIgnoreFile(name, texts, disk) ==
  {disk, AsDirectory(name, disk)} \cup {(Abs(name) :> t) @@ disk : t \in texts}

LoadPaths == {KeepLog, OtherLog}

InitLoad ==
  /\ \/ /\ baseExists = TRUE
        /\ \E d1 \in WithIgnoreFile(GitignoreName, LoadTexts, PlainDisk) :
             \E d2 \in WithIgnoreFile(NpmignoreName, LoadTexts, d1) :
               \/ files = d2
               \/ \E t \in {StarLog, NotKeepLog} :
                    files = (Abs(DockerignoreName) :> t) @@ d2
     \/ /\ baseExists = FALSE
        /\ files = <<>>
  /\ ignoreFilter = [null |-> TRUE, rules |-> <<>>]
  /\ ignoreRules = <<>>
  /\ last = NoCall
  /\ calls = NoCalls
  /\ telegram = NoTelegram
  /\ configs = NoConfigs

NextLoad ==
  \/ FsInit
  \/ \E p \in LoadPaths : DoIsFileIgnored(p)

SpecLoad == InitLoad /\ [][NextLoad]_vars

\* the last call is init
Inited == last.op = "init"

\* the pattern lines of an ignore file that is on the disk as a file
PatternLinesOf(name) ==
  IF Abs(name) \in DOMAIN files THEN AddPatterns(files[Abs(name)]) ELSE <<>>

\* the ignore file is neither a file nor a directory
Missing(name) == Abs(name) \notin DOMAIN files /\ ~IsDirectory(files, Abs(name))

\* C18: a call whose read, write or glob fails ends in an error for its
\* caller: init when .gitignore is there and cannot be read, readFile and
\* updateTodoStatus on a path that cannot be read, writeFile on a path that
\* cannot be written, getTodoInfo and getDocumentationInfo when a file they
\* found cannot be read
C18_FailureSurfaces ==
  LET fullPath == Resolve(BasePath, last.path)
      unreadable(ps) == \E f \in FindFilesResult(ps) : f \notin DOMAIN files
  IN  /\ (/\ last.op = "init"
          /\ IsDirectory(files, Abs(GitignoreName))) => last.value = FALSE
      /\ (/\ last.op \in {"readFile", "updateTodoStatus"}
          /\ fullPath \notin DOMAIN files) => last.status = "error"
      /\ (/\ last.op = "writeFile"
          /\ IsDirectory(files, fullPath)) => last.status = "error"
      /\ (last.op = "getTodoInfo" /\ unreadable(TodoPatterns))
           => last.status = "error"
      /\ (last.op = "getDocumentationInfo" /\ unreadable(DocPatterns))
           => last.status = "error"

\* C19: when the base directory exists init returns true and leaves a
\* filter, whichever ignore files are there; when none is there the filter
\* and ignoreRules are empty, and when .gitignore is missing the filter
\* holds the pattern lines of the additional files that are there
C19_InitSucceeds ==
  (Inited /\ baseExists) =>
    /\ last.value = TRUE
    /\ ~ignoreFilter.null
    /\ (/\ Missing(GitignoreName)
        /\ Missing(NpmignoreName)
        /\ Missing(DockerignoreName))
         => (ignoreFilter.rules = <<>> /\ ignoreRules = <<>>)
    /\ Missing(GitignoreName) =>
         ignoreFilter.rules = PatternLinesOf(NpmignoreName)
                                \o PatternLinesOf(DockerignoreName)

\* init on a disk without .gitignore and without .npmignore, with a
\* .dockerignore that holds a rule
C19_Witness ==
  /\ Inited
  /\ baseExists
  /\ last.value = TRUE
  /\ Missing(GitignoreName)
  /\ Missing(NpmignoreName)
  /\ ignoreFilter.rules = <<StarLog>>

\* C20: after init the filter holds the pattern lines of .gitignore, then
\* those of the additional ignore files in the order of the configuration;
\* with "*.log" in .gitignore and "!keep.log" in .npmignore keep.log is not
\* ignored, and with the two texts exchanged it is
C20_RulesInLoadOrder ==
  /\ (Inited /\ last.value = TRUE) =>
       ignoreFilter.rules = PatternLinesOf(GitignoreName)
                              \o PatternLinesOf(NpmignoreName)
                              \o PatternLinesOf(DockerignoreName)
  /\ (/\ Asked /\ ~ignoreFilter.null /\ last.path = KeepLog
      /\ Missing(DockerignoreName)
      /\ Abs(GitignoreName) \in DOMAIN files
      /\ Abs(NpmignoreName) \in DOMAIN files) =>
       /\ (/\ files[Abs(GitignoreName)] = StarLog
           /\ files[Abs(NpmignoreName)] = NotKeepLog) => last.value = FALSE
       /\ (/\ files[Abs(GitignoreName)] = NotKeepLog
           /\ files[Abs(NpmignoreName)] = StarLog) => last.value = TRUE

\* ---------------------------------------------------------------------
\* The lines of an ignore file and the rules kept of them

\* lines of an ignore file: a rule, a comment, comments after a space and
\* after a tab, an empty line and a line of one space
RuleLines ==
  {StarLog, <<"#", " ", "c">>, <<" ", "#", " ", "c">>, <<"\t", "#">>, <<>>,
   <<" ">>}

InitRules ==
  /\ baseExists = TRUE
  /\ \E t \in {JoinWith(ls, NL) : ls \in SeqsUpTo(RuleLines, MaxRules)} :
       files = (Abs(GitignoreName) :> t) @@ PlainDisk
  /\ ignoreFilter = [null |-> TRUE, rules |-> <<>>]
  /\ ignoreRules = <<>>
  /\ last = NoCall
  /\ calls = NoCalls
  /\ telegram = NoTelegram
  /\ configs = NoConfigs

NextRules ==
  \/ FsInit
  \/ \E p \in LoadPaths : DoIsFileIgnored(p)

SpecRules == InitRules /\ [][NextRules]_vars

\* the first character of the line that is not white space is '#'
IsCommentLine(line) == Trim(line) # <<>> /\ Head(Trim(line)) = "#"

\* the lines of the text that are neither blank nor comments, in order
RuleLinesOf(text) ==
  LET keep(line) == Trim(line) # <<>> /\ ~IsCommentLine(line)
  IN  SelectSeq(SplitOn(text, NL), keep)

\* C21: after init ignoreRules holds no blank line and no line whose first
\* character that is not white space is '#', and holds every other line of
\* the ignore file once, in the order of the file
C21_CommentsDiscarded ==
  (ignoreRules # <<>> \/ (Inited /\ last.value = TRUE)) =>
    ignoreRules = RuleLinesOf(files[Abs(GitignoreName)])

\* init has kept a comment line that starts with white space
C21_IndentedCommentKept ==
  /\ ~ignoreFilter.null
  /\ \E i \in 1..Len(ignoreRules) : IsCommentLine(ignoreRules[i])

\* ---------------------------------------------------------------------
\* Lines outside the grammar, and the line break at the end of a text

\* the header grammar: one or more "#", white space, a text
HeaderShape(line) ==
  \E h \in 1..Len(line) :
    /\ \A j \in 1..h : line[j] = "#"
    /\ \E m \in (h + 1)..(Len(line) - 1) :
         /\ \A j \in (h + 1)..m : IsSpace(line[j])
         /\ AllDot(From(line, m + 1))

\* the lines without the i-th
Without(lines, i) ==
  SubSeq(lines, 1, i - 1) \o SubSeq(lines, i + 1, Len(lines))

\* the lines of the parsed text that are neither headers nor tasks
OtherLines ==
  {i \in 1..Len(ParsedLines) :
     ~HeaderShape(ParsedLines[i]) /\ ~TaskShape(ParsedLines[i])}

\* C22: parseTodoFile returns a result for a text with lines that are
\* neither headers nor tasks, and the text without any one such line is
\* parsed to the same tasks and sections
C22_OtherLinesNoEffect ==
  Parsed =>
    /\ last.status = "ok"
    /\ \A i \in OtherLines :
         ParseTodoFile(JoinWith(Without(ParsedLines, i), NL)) = last.value

\* a text parsed that has a line with an upper-case "X" in its checkbox
\* between a header and a task of that header
C22_Witness ==
  /\ Parsed
  /\ Len(ParsedLines) = 3
  /\ HeaderShape(ParsedLines[1])
  /\ ParsedLines[2] = <<"-", " ", "[", "X", "]", " ", "a">>
  /\ OtherLines = {2}
  /\ Len(last.value.tasks) = 1
  /\ last.value.tasks[1].section = <<"H">>

\* the text does not end in a line break
NoFinalBreak(text) == text = <<>> \/ text[Len(text)] # NL

\* C23: a text that does not end in a line break is parsed by
\* parseTodoFile to what the text with a line break added is parsed to, and
\* by parseMarkdownFile to the same sections and title
C23_FinalBreakOptional ==
  NoFinalBreak(last.text) =>
    /\ Parsed => last.value = ParseTodoFile(last.text \o <<NL>>)
    /\ ParsedMd =>
         LET broken == ParseMarkdownFile(last.text \o <<NL>>)
         IN  /\ last.value.sections = broken.sections
             /\ last.value.title = broken.title

\* a text parsed whose last line is a task and has no line break after it
C23_Witness ==
  /\ Parsed
  /\ NoFinalBreak(last.text)
  /\ TaskShape(ParsedLines[Len(ParsedLines)])
  /\ Len(last.value.tasks) = 2

\* a text parsed by parseMarkdownFile whose last line is the content of a
\* section and has no line break after it
C23_WitnessMarkdown ==
  /\ ParsedMd
  /\ NoFinalBreak(last.text)
  /\ Len(last.value.sections) = 1
  /\ last.value.sections[1].content = <<ParsedLines[Len(ParsedLines)]>>

\* ---------------------------------------------------------------------
\* The two forms of a path under the base directory

\* the path relative to the base directory of an absolute path under it
UnderBase(path) == From(path, Len(BasePath) + 2)

\* C24: isFileIgnored gives the same answer for a file under the base
\* directory asked about by its path relative to the base directory and by
\* its absolute path
C24_AbsoluteOrRelative ==
  Asked =>
    IF StartsWith(last.path, BasePath \o <<"/">>)
    THEN last.value = IsFileIgnored(UnderBase(last.path))
    ELSE last.value = IsFileIgnored(BasePath \o <<"/">> \o last.path)

\* build/out.txt asked about by its absolute path and ignored by a rule
\* that is bound to the base directory
C24_Witness ==
  /\ Asked
  /\ last.path = Abs(BuildOut)
  /\ ~ignoreFilter.null
  /\ ignoreFilter.rules = <<RootBuild>>
  /\ last.value = TRUE

\* ---------------------------------------------------------------------
\* The calls that follow init, among them writes to the ignore file

\* the .gitignore the repository starts with, when it has one
FrameIgnoreText == JoinWith(<<StarLog, NotKeepLog>>, NL)

\* the number of lines of the file at the path, 0 when it is no file
LinesAt(path) ==
  IF Abs(path) \in DOMAIN files THEN Len(SplitOn(files[Abs(path)], NL))
  ELSE 0

InitFrame ==
  /\ \/ files = RepoDisk
     \/ files = (Abs(GitignoreName) :> FrameIgnoreText) @@ RepoDisk
  /\ baseExists = TRUE
  /\ ignoreFilter = [null |-> TRUE, rules |-> <<>>]
  /\ ignoreRules = <<>>
  /\ last = NoCall
  /\ calls = NoCalls
  /\ telegram = NoTelegram
  /\ configs = NoConfigs

NextFrame ==
  \/ FsInit
  \/ \E p \in {KeepLog, TodoName} : DoIsFileIgnored(p)
  \/ DoFindFiles({StarMd})
  \/ DoReadFile(TodoName)
  \/ DoWriteFile(GitignoreName, StarMd)
  \/ \E p \in {GitignoreName, OtherLog} :
       /\ LinesAt(p) < MaxLines
       /\ DoAppendToFile(p, StarMd)
  \/ UpdateTodoStatus(TodoName, <<"a">>, TRUE)
  \/ DoGetTodoInfo
  \/ DoGetDocumentationInfo

SpecFrame == InitFrame /\ [][NextFrame]_vars

\* C25: a call of isFileIgnored, findFiles, readFile, writeFile,
\* appendToFile, getTodoInfo, getDocumentationInfo or updateTodoStatus
\* leaves ignoreFilter and ignoreRules as they were, also when it writes
\* the ignore file, and isFileIgnored answers after the call as before it
C25_RulesReadOnly ==
  [][last'.op # "init" =>
       /\ ignoreFilter' = ignoreFilter
       /\ ignoreRules' = ignoreRules
       /\ \A p \in {KeepLog, OtherLog, TodoName, Abs(TodoName)} :
            IsFileIgnoredIn(ignoreFilter', p) = IsFileIgnored(p)]_vars

\* after init a rule has been appended to .gitignore, so that the file
\* holds a rule the compiled filter does not
C25_Witness ==
  /\ last.op = "appendToFile"
  /\ last.path = GitignoreName
  /\ last.status = "ok"
  /\ ~ignoreFilter.null
  /\ ignoreFilter.rules = <<StarLog, NotKeepLog>>
  /\ files[Abs(GitignoreName)] =
       JoinWith(<<StarLog, NotKeepLog, StarMd>>, NL)
  /\ ~IsFileIgnored(TodoName)

\* ---------------------------------------------------------------------
\* updateTodoStatus followed by parseTodoFile, on files with headers

AgreeLines ==
  {<<"#", " ", "H">>,
   <<"-", " ", "[", " ", "]", " ", "a">>,
   <<"*", "\t", "[", "x", "]", " ", "b", "[", " ", "]">>,
   <<"-", " ", "[", "X", "]", " ", "a">>}

InitAgree ==
  /\ \E text \in {JoinWith(ls, NL) : ls \in SeqsUpTo(AgreeLines, MaxLines)} :
       files = (Abs(TodoName) :> text)
  /\ baseExists = TRUE
  /\ ignoreFilter = [null |-> TRUE, rules |-> <<>>]
  /\ ignoreRules = <<>>
  /\ last = NoCall
  /\ calls = NoCalls
  /\ telegram = NoTelegram
  /\ configs = NoConfigs

NextAgree ==
  \E d \in TaskDescriptions, c \in BOOLEAN : UpdateTodoStatus(TodoName, d, c)

SpecAgree == InitAgree /\ [][NextAgree]_vars

\* the line of the text read that the k-th task comes from
SourceLine(k) ==
  LinesBefore[NthOf({i \in 1..Len(LinesBefore) : TaskShape(LinesBefore[i])},
                    k)]

\* C26: the file written by a successful updateTodoStatus is parsed to as
\* many tasks as the text read, with the same descriptions and sections in
\* the same order and the same list of sections; a task is completed as
\* requested when its line contains the substring and as before otherwise
C26_ParseAgrees ==
  Updated =>
    LET before == ParseTodoFile(last.text)
        after == ParseTodoFile(files[Resolve(BasePath, last.path)])
    IN  /\ Len(after.tasks) = Len(before.tasks)
        /\ after.sections = before.sections
        /\ \A k \in 1..Len(before.tasks) :
             /\ after.tasks[k].description = before.tasks[k].description
             /\ after.tasks[k].section = before.tasks[k].section
             /\ after.tasks[k].completed =
                  IF Includes(SourceLine(k), last.desc) THEN last.completed
                  ELSE before.tasks[k].completed

\* a file with a header and two tasks below it, of which the call has
\* completed the one that contains "a" and left the other completed
C26_Witness ==
  /\ Updated
  /\ last.desc = <<"a">>
  /\ last.completed
  /\ last.text = JoinWith(<<<<"#", " ", "H">>,
                            <<"-", " ", "[", " ", "]", " ", "a">>,
                            <<"*", "\t", "[", "x", "]", " ", "b", "[", " ", "]">> >>,
                          NL)
  /\ LinesAfter[2] = <<"-", " ", "[", "x", "]", " ", "a">>
  /\ LinesAfter[3] = LinesBefore[3]

\* C27: an updateTodoStatus call on a file where no line is a task line
\* that contains the substring returns true and writes the text it read
C27_NoMatchRewritesSame ==
  (/\ last.op = "updateTodoStatus"
   /\ Resolve(BasePath, last.path) \in DOMAIN files
   /\ ~IsFileIgnored(last.path)
   /\ \A i \in 1..Len(LinesBefore) :
        ~(TaskShape(LinesBefore[i]) /\ Includes(LinesBefore[i], last.desc)))
    => /\ last.status = "ok"
       /\ last.value = TRUE
       /\ files[Resolve(BasePath, last.path)] = last.text

\* a call for "b" on a file with an empty line and task lines without "b"
C27_Witness ==
  /\ Updated
  /\ last.desc = <<"b">>
  /\ last.value = TRUE
  /\ Len(LinesBefore) = 3
  /\ LinesBefore[1] = <<"-", " ", "[", " ", "]", " ", "a">>
  /\ LinesBefore[2] = <<>>
  /\ LinesBefore[3] = <<"-", " ", "[", "X", "]", " ", "a">>
  /\ files[Abs(TodoName)] = last.text

\* ---------------------------------------------------------------------
\* Repobot.init, Repobot.sendReport and the scheduled job

InitRepobot ==
  /\ \/ /\ baseExists = TRUE
        /\ \E d \in {RepoDisk,
                      (Abs(GitignoreName) :> FrameIgnoreText) @@ RepoDisk} :
             files \in {d, WithGitDir(d)}
     \/ /\ baseExists = FALSE
        /\ files = <<>>
  /\ ignoreFilter = [null |-> TRUE, rules |-> <<>>]
  /\ ignoreRules = <<>>
  /\ last = NoCall
  /\ calls = NoCalls
  /\ \E token, chat, group \in BOOLEAN :
       telegram = [NoTelegram EXCEPT !.botToken = token, !.chatId = chat,
                                     !.groupId = group]
  /\ configs = NoConfigs

NextRepobot ==
  \/ RepobotInit
  \/ \E apiOk \in BOOLEAN : SendReport(apiOk)
  \/ \E generated, apiOk \in BOOLEAN : ScheduledJob(generated, apiOk)

SpecRepobot == InitRepobot /\ [][NextRepobot]_vars

\* C28: Repobot.init returns true only when GitConnector.init and
\* FileSystem.init both returned true, and false when one of them returned
\* false
C28_InitStatus ==
  last.op = "Repobot.init" =>
    (last.value = TRUE <=> (GitInitResult /\ FsInitResult))

\* C29: Repobot.sendReport returns true only when the message reached the
\* chat, and the scheduled job logs that the report was sent only then
C29_SentOnlyIfDelivered ==
  /\ (last.op = "sendReport" /\ last.value = TRUE) => telegram.delivered
  /\ (last.op = "scheduledJob" /\ last.msg = SentMsg) => telegram.delivered

\* ---------------------------------------------------------------------
\* Config instances

ConfigPaths ==
  {<<"ai", "model">>, <<"telegram", "chatId">>, <<"reporting", "template">>}

InitConfig ==
  /\ files = RepoDisk
  /\ baseExists = TRUE
  /\ ignoreFilter = [null |-> TRUE, rules |-> <<>>]
  /\ ignoreRules = <<>>
  /\ last = NoCall
  /\ calls = NoCalls
  /\ telegram = NoTelegram
  /\ configs = NoConfigs

NextConfig ==
  \/ \E options \in {<<>>, [ai |-> [provider |-> "openai", model |-> "m"]]} :
       NewConfig(options)
  \/ \E i \in 1..MaxConfigs, path \in ConfigPaths : ConfigGet(i, path)
  \/ \E i \in 1..MaxConfigs, path \in ConfigPaths, value \in {"v"} :
       ConfigSet(i, path, value)

SpecConfig == InitConfig /\ [][NextConfig]_vars

\* what get returns for the path on an instance made without options
\* before any set
OriginalDefault(path) ==
  IF path[2] \in DOMAIN DefaultConfig[path[1]]
  THEN DefaultConfig[path[1]][path[2]]
  ELSE Undefined

\* C30: a set on one instance leaves what get returns on every other
\* instance as it was, and an instance made afterwards without the section
\* of a path returns the original default for it
C30_InstancesIsolated ==
  [][/\ last'.op = "Config.set" =>
          \A i \in 1..Len(configs.instances) \ {last'.instance} :
            \A path \in ConfigPaths :
              GetIn(configs', i, path) = GetIn(configs, i, path)
     /\ (last'.op = "Config" /\ last'.status = "ok") =>
          \A path \in ConfigPaths :
            path[1] \notin DOMAIN last'.value =>
              GetIn(configs', last'.instance, path) = OriginalDefault(path)
    ]_vars

====
